---------------------------- MODULE Spec2Model ----------------------------
(***************************************************************************)
(* Invoice reconciliation of kazanins/onchain-dd.                          *)
(*                                                                         *)
(* src/src/server/index.ts holds three successive versions of the server:  *)
(*   v3 (lines 1-613)    create, mark-paid, refresh-status, transactions   *)
(*   v2 (lines 615-918)  create, the earlier mark-paid, the chain watcher  *)
(*   v1 (lines 920-1038) generate, the chain watcher                       *)
(* A deployment runs one of them; `version` says which.  The invoice       *)
(* registry is the contract of src/script/DeployInvoiceRegistry.s.sol, the *)
(* ledger is the token's append-only history of transfer transactions.     *)
(***************************************************************************)
EXTENDS Integers, Sequences, FiniteSets, TLC

VARIABLES
    version,            \* which server version is deployed
    txs,                \* ledger: the token transfer transactions, hash = block = index
    nextInvoiceNumber,  \* registry: InvoiceRegistry.nextInvoiceNumber
    regInvoices,        \* registry: InvoiceRegistry.invoices, number -> Invoice
    regTxs,             \* registry transactions sent by the merchant account
    invoices,           \* projection store: `let invoices: Invoice[]`
    generation,         \* how many times the projection store was regenerated
    sent,               \* every broadcast(event, data) so far, in order
    delivered,          \* how often the watcher was handed each transaction's log (2 = twice or more)
    req,                \* the HTTP requests: parameters, position, locals, response
    clients,            \* sse.ts: `const clients: SseClient[]`, the ids in array order
    streams,            \* the response stream of every /api/events connection so far
    call,              \* the last call of removeClient or of the memo codec made from outside
    scan                \* the GET /api/transactions request and the ledger it scans

vars == <<version, txs, nextInvoiceNumber, regInvoices, regTxs, invoices,
          generation, sent, delivered, req, clients, streams, call, scan>>

---------------------------------------------------------------------------
(* Bounds *)

MaxTxs == 2          \* transfer transactions on the ledger
MaxInvoices == 2     \* invoices created in the registry
MaxReqs == 2         \* HTTP requests served in one behaviour
MaxGenerate == 2     \* POST /api/invoices/generate calls in one behaviour
MaxBatch == 2        \* logs in one onLogs batch
GenerateCount == 2   \* invoices per generate call (the code asks for 5)

Suffixes == {"a", "b"}   \* outcomes of randomShortId()

---------------------------------------------------------------------------
(* Hex strings.  An address or bytes32 value is a value `v` in some        *)
(* spelling: `uc` says whether the spelling has upper-case hex digits.     *)

Hex(v, uc) == [v |-> v, uc |-> uc]

toLowerCase(h) == [h EXCEPT !.uc = FALSE]

\* viem decodes addresses in checksum spelling
getAddress(v) == Hex(v, TRUE)

ALPHA_USD == Hex("alphaUsd", FALSE)
ZERO_ADDRESS == Hex("zero", FALSE)
merchantAddress == Hex("merchant", FALSE)

Payees == {"payerA"}    \* who invoices are issued to

\* invoices.ts: makeInvoiceId(n) = `INV-${n padded}-${randomShortId()}`
makeInvoiceId(n, suffix) == <<n, suffix>>

\* invoices.ts: toMemoHex(id) = pad(stringToHex(id), 32): lower-case hex of the
\* identifier's bytes, distinct identifiers giving distinct memos
toMemoHex(id) == Hex(id, FALSE)

\* the identifiers payers put in a memo: an invoice whose suffix is "b" is one
\* that no transfer names
PaidIds == {makeInvoiceId(n, "a") : n \in 1..MaxInvoices}

---------------------------------------------------------------------------
(* Ledger *)

\* a TransferWithMemo log as the chain stores it
Event(address, from, to, memo) ==
    [address |-> address, from |-> from, to |-> to, memo |-> memo, value |-> 1]

\* the transfer that settles an invoice: the token, from its payee, to the merchant
Settling(id) == Event("alphaUsd", "payerA", "merchant", id)

\* the logs payers produce: the settling transfer of each identifier and, for
\* the first identifier, the transfers that differ from it in one field (sent
\* to the payee itself, sent by somebody else, of another token)
Events ==
    {Settling(id) : id \in PaidIds}
        \cup {[Settling(makeInvoiceId(1, "a")) EXCEPT !.to = "payerA"],
               [Settling(makeInvoiceId(1, "a")) EXCEPT !.from = "payerB"],
               [Settling(makeInvoiceId(1, "a")) EXCEPT !.address = "otherToken"]}

\* a reverted transaction carries no logs
Transactions ==
    {[status |-> "reverted", logs |-> <<>>]}
        \cup {[status |-> "success", logs |-> <<e>>] : e \in Events}

\* the block of transaction h: one block without a transfer lies between two
\* transfers
blockNumber(h) == 2 * h

\* client.getBlockNumber(): the head is the block of the latest transfer
getBlockNumber == blockNumber(Len(txs))

\* a payer (or anyone) sends a token transfer; it is mined
Transfer ==
    /\ Len(txs) < MaxTxs
    /\ \E t \in Transactions : txs' = Append(txs, t)
    /\ UNCHANGED <<version, nextInvoiceNumber, regInvoices, regTxs, invoices,
                   generation, sent, delivered, req,
                   clients, streams, call, scan>>

\* the log of transaction h as viem hands it to the server: addresses in
\* checksum spelling, the memo topic in the spelling `uc` the node returns
DecodedLog(h, i, uc) ==
    LET e == txs[h].logs[i]
    IN  [address |-> Hex(e.address, FALSE),
         transactionHash |-> h,
         logIndex |-> i,
         blockNumber |-> blockNumber(h),
         args |-> [from |-> getAddress(e.from),
                   to |-> getAddress(e.to),
                   memo |-> Hex(e.memo, uc),
                   value |-> e.value]]

\* every (transaction, log index) on the ledger
LogRefs == {<<h, i>> \in (1..Len(txs)) \X (1..1) : i <= Len(txs[h].logs)}

\* the logs of the ALPHA_USD token: what watchEvent and getLogs filter on
AlphaLogRefs == {r \in LogRefs : txs[r[1]].logs[r[2]].address = ALPHA_USD.v}

---------------------------------------------------------------------------
(* Projection store and change notification (v1, v2) *)

\* an optional field of an Invoice that is not set
undefined == [undefined |-> TRUE]

\* invoices.ts: generateInvoices(count), one random suffix per invoice
generateInvoices(suffixOf) ==
    [i \in 1..GenerateCount |->
        [number |-> i,
         id |-> makeInvoiceId(i, suffixOf[i]),
         memoHex |-> toMemoHex(makeInvoiceId(i, suffixOf[i])),
         status |-> "Unpaid",
         paidTxHash |-> 0,
         paidFrom |-> undefined,
         paidAmount |-> undefined]]

\* Response.write(payload) on the stream of one /api/events connection: an
\* open stream takes the message, a broken one drops it
write(stream, msg) ==
    IF stream.state = "open" THEN [stream EXCEPT !.got = Append(@, msg)]
    ELSE stream

\* sse.ts: `for (const c of clients) c.res.write(payload)` over the ids left.
\* Nothing catches what write raises: where writes to a broken stream raise
\* (`raises`), the first of them ends the loop and leaves broadcast
RECURSIVE writeAll(_, _, _, _)
writeAll(strs, ids, msg, raises) ==
    IF ids = <<>> THEN [streams |-> strs, threw |-> FALSE]
    ELSE IF raises /\ strs[Head(ids)].state = "broken"
         THEN [streams |-> strs, threw |-> TRUE]
    ELSE writeAll([strs EXCEPT ![Head(ids)] = write(@, msg)], Tail(ids), msg, raises)

\* what a write to a broken stream can do during one handler: be dropped by
\* the response, or raise
Raises ==
    {FALSE} \cup {TRUE : i \in {k \in 1..Len(clients) : streams[clients[k]].state = "broken"}}

\* sse.ts: broadcast(event, data) on st = [store, sent, streams, threw, raises]:
\* the call is logged in `sent`, tagged with the generation `gen` of the store
\* it is sent for, and written to the clients
broadcast(st, gen, event, data) ==
    LET msg == [event |-> event, data |-> data, gen |-> gen]
        out == writeAll(st.streams, clients, msg, st.raises)
    IN  [st EXCEPT !.sent = Append(@, msg), !.streams = out.streams,
                   !.threw = out.threw]

\* index.ts: invoiceByMemoHex, the index of the first invoice of `store` whose
\* memo equals memoHex ignoring case, 0 when there is none (undefined)
invoiceByMemoHex(store, memoHex) ==
    LET key == toLowerCase(memoHex)
        hits == {i \in 1..Len(store) : toLowerCase(store[i].memoHex) = key}
    IN  IF hits = {} THEN 0 ELSE CHOOSE i \in hits : \A j \in hits : i <= j

\* String(value) of a bigint: its decimal digits
String(value) == [decimal |-> value]

\* the two broadcasts of a settlement in the other order
settledReversed(st, idx) ==
    LET one == broadcast(st, generation, "invoices", st.store)
    IN  IF one.threw THEN one
        ELSE broadcast(one, generation, "invoicePaid", one.store[idx])

\* the two broadcasts of a settlement; the second is not reached when the
\* first raises
settled(st, idx) ==
    LET one == broadcast(st, generation, "invoicePaid", st.store[idx])
    IN  IF one.threw THEN one
        ELSE broadcast(one, generation, "invoices", one.store)

\* onLog without `if (inv.status === 'Paid') continue`
onLogNoPaidSkip(st, log) ==
    LET idx == invoiceByMemoHex(st.store, log.args.memo)
    IN  IF toLowerCase(log.args.to) # toLowerCase(merchantAddress) THEN st
        ELSE IF idx = 0 THEN st
        ELSE settled([st EXCEPT !.store[idx].status = "Paid",
                                !.store[idx].paidTxHash = log.transactionHash,
                                !.store[idx].paidFrom = log.args.from,
                                !.store[idx].paidAmount = String(log.args.value)],
                     idx)

\* onLog that puts a Paid invoice back to Unpaid when its transfer comes again
onLogReopen(st, log) ==
    LET idx == invoiceByMemoHex(st.store, log.args.memo)
    IN  IF toLowerCase(log.args.to) # toLowerCase(merchantAddress) THEN st
        ELSE IF idx = 0 THEN st
        ELSE IF st.store[idx].status = "Paid"
             THEN [st EXCEPT !.store[idx].status = "Unpaid"]
        ELSE settled([st EXCEPT !.store[idx].status = "Paid",
                                !.store[idx].paidTxHash = log.transactionHash,
                                !.store[idx].paidFrom = log.args.from,
                                !.store[idx].paidAmount = String(log.args.value)],
                     idx)

\* onLog without `if (to !== merchant) continue`
onLogNoRecipient(st, log) ==
    LET idx == invoiceByMemoHex(st.store, log.args.memo)
    IN  IF idx = 0 THEN st
        ELSE IF st.store[idx].status = "Paid" THEN st
        ELSE settled([st EXCEPT !.store[idx].status = "Paid",
                                !.store[idx].paidTxHash = log.transactionHash,
                                !.store[idx].paidFrom = log.args.from,
                                !.store[idx].paidAmount = String(log.args.value)],
                     idx)

\* onLog that broadcasts after the first two field writes, before paidFrom
\* and paidAmount are written
onLogEarlyBroadcast(st, log) ==
    LET idx == invoiceByMemoHex(st.store, log.args.memo)
        out == IF toLowerCase(log.args.to) # toLowerCase(merchantAddress) THEN st
               ELSE IF idx = 0 THEN st
               ELSE IF st.store[idx].status = "Paid" THEN st
               ELSE settled([st EXCEPT !.store[idx].status = "Paid",
                                       !.store[idx].paidTxHash = log.transactionHash],
                            idx)
    IN  IF out = st THEN st
        ELSE [out EXCEPT !.store[idx].paidFrom = log.args.from,
                         !.store[idx].paidAmount = String(log.args.value)]

\* onLog that settles only a transfer of the amount invoices are issued for
onLogAmountEquals(st, log) ==
    LET idx == invoiceByMemoHex(st.store, log.args.memo)
    IN  IF toLowerCase(log.args.to) # toLowerCase(merchantAddress) THEN st
        ELSE IF idx = 0 THEN st
        ELSE IF st.store[idx].status = "Paid" THEN st
        ELSE IF log.args.value # 1 THEN st
        ELSE settled([st EXCEPT !.store[idx].status = "Paid",
                                !.store[idx].paidTxHash = log.transactionHash,
                                !.store[idx].paidFrom = log.args.from,
                                !.store[idx].paidAmount = String(log.args.value)],
                     idx)

\* one iteration of the onLogs loop on st = [store, sent, streams, threw, raises]
onLog(st, log) ==
    LET idx == invoiceByMemoHex(st.store, log.args.memo)
    IN  IF toLowerCase(log.args.to) # toLowerCase(merchantAddress) THEN st
        ELSE IF idx = 0 THEN st
        ELSE IF st.store[idx].status = "Paid" THEN st
        ELSE settled([st EXCEPT !.store[idx].status = "Paid",
                                !.store[idx].paidTxHash = log.transactionHash,
                                !.store[idx].paidFrom = log.args.from,
                                !.store[idx].paidAmount = String(log.args.value)],
                     idx)

\* the onLogs callback: the loop over the batch, left when a broadcast raises
RECURSIVE onLogs(_, _)
onLogs(st, logs) ==
    IF logs = <<>> \/ st.threw THEN st
    ELSE onLogs(onLog(st, Head(logs)), Tail(logs))

\* POST /api/invoices/generate (v1)
Generate ==
    /\ version = "v1"
    /\ generation < MaxGenerate
    /\ \E suffixOf \in [1..GenerateCount -> Suffixes], raises \in Raises :
        LET out == broadcast([store |-> generateInvoices(suffixOf), sent |-> sent,
                              streams |-> streams, threw |-> FALSE,
                              raises |-> raises],
                             generation + 1, "invoices", generateInvoices(suffixOf))
        IN  /\ invoices' = out.store
            /\ generation' = generation + 1
            /\ sent' = out.sent
            /\ streams' = out.streams
    /\ UNCHANGED <<version, txs, nextInvoiceNumber, regInvoices, regTxs,
                   delivered, req, clients, call, scan>>

\* batches of at most MaxBatch logs of the token, repeats allowed
Batches == UNION {[1..n -> AlphaLogRefs \X BOOLEAN] : n \in 1..MaxBatch}

\* startInvoiceWatcher: the node delivers a batch of logs to onLogs (v1, v2)
Watch ==
    /\ version \in {"v1", "v2"}
    /\ invoices # <<>>    \* on an empty store every log ends at `if (!inv) continue`
    /\ \E b \in Batches, raises \in Raises :
        LET logs == [k \in 1..Len(b) |-> DecodedLog(b[k][1][1], b[k][1][2], b[k][2])]
            out == onLogs([store |-> invoices, sent |-> sent, streams |-> streams,
                           threw |-> FALSE, raises |-> raises], logs)
        IN  /\ invoices' = out.store
            /\ sent' = out.sent
            /\ streams' = out.streams
            /\ delivered' = [h \in DOMAIN delivered |->
                    LET n == delivered[h]
                             + Cardinality({k \in 1..Len(b) : b[k][1][1] = h})
                    IN  IF n > 2 THEN 2 ELSE n]
    /\ UNCHANGED <<version, txs, nextInvoiceNumber, regInvoices, regTxs,
                   generation, req, clients, call, scan>>

---------------------------------------------------------------------------
(* Invoice registry: contract InvoiceRegistry *)

Open == 0   \* enum Status { Open, Paid }
Paid == 1

\* the record of a number that was never assigned: every field zero
ZeroInvoice ==
    [number |-> 0, invoiceId |-> "zero", payee |-> "zero", status |-> Open,
     paidTxHash |-> 0]

\* constructor: owner = msg.sender, the account that deployed the contract,
\* which is the account the server signs with
owner == "merchant"

\* accounts that send transactions to the registry
Accounts == {owner, "payerB"}

\* mapping(uint256 => Invoice) invoices, read at `number`
invoiceAt(reg, number) ==
    IF number \in DOMAIN reg THEN reg[number] ELSE ZeroInvoice

\* InvoiceRegistry.getInvoice
getInvoice(number) == invoiceAt(regInvoices, number)

\* invoices[number] = rec; the numbers between the end and `number`, if any,
\* stay unassigned
assign(reg, number, rec) ==
    [k \in 1..(IF number > Len(reg) THEN number ELSE Len(reg)) |->
        IF k = number THEN rec ELSE invoiceAt(reg, k)]

\* the requires of InvoiceRegistry.createInvoice
createInvoiceReverts(payee, currency, amount, dueDate) ==
    \/ payee = "zero"           \* require(payee != address(0))
    \/ currency = "zero"        \* require(currency != address(0))
    \/ amount <= 0              \* require(amount > 0)
    \/ dueDate # "future"       \* require(dueDate > block.timestamp)

\* createInvoice with `number = nextInvoiceNumber` in place of
\* nextInvoiceNumber++
createInvoiceNoIncrement(st, payee, currency, amount, dueDate, invoiceId) ==
    IF createInvoiceReverts(payee, currency, amount, dueDate) THEN st
    ELSE [st EXCEPT !.invoices = assign(st.invoices, st.nextInvoiceNumber,
                        [number |-> st.nextInvoiceNumber, invoiceId |-> invoiceId,
                         payee |-> payee, status |-> Open, paidTxHash |-> 0])]

\* InvoiceRegistry.createInvoice on st = [invoices, nextInvoiceNumber]: the
\* storage after the call, unchanged when the call reverts
createInvoice(st, payee, currency, amount, dueDate, invoiceId) ==
    IF createInvoiceReverts(payee, currency, amount, dueDate) THEN st
    ELSE [invoices |-> assign(st.invoices, st.nextInvoiceNumber,
                        [number |-> st.nextInvoiceNumber, invoiceId |-> invoiceId,
                         payee |-> payee, status |-> Open, paidTxHash |-> 0]),
          nextInvoiceNumber |-> st.nextInvoiceNumber + 1]

\* InvoiceRegistry.createInvoice, called by the merchant account with the
\* identifier the create handler makes for the number it read
CreateInvoice ==
    /\ version \in {"v2", "v3"}
    /\ nextInvoiceNumber <= MaxInvoices
    /\ \E payee \in Payees, suffix \in {"a"} :
        LET out == createInvoice([invoices |-> regInvoices,
                                  nextInvoiceNumber |-> nextInvoiceNumber],
                                 payee, "alphaUsd", 1, "future",
                                 makeInvoiceId(nextInvoiceNumber, suffix))
        IN  /\ regInvoices' = out.invoices
            /\ nextInvoiceNumber' = out.nextInvoiceNumber
    /\ UNCHANGED <<version, txs, regTxs, invoices, generation, sent, delivered, req,
                   clients, streams, call, scan>>

\* markPaid without require(invoice.status == Status.Open, "already paid")
markPaidRevertsNoStatus(reg, sender, number) ==
    \/ sender # owner
    \/ invoiceAt(reg, number).number = 0

\* markPaid without the onlyOwner modifier
markPaidRevertsNoOwner(reg, sender, number) ==
    \/ invoiceAt(reg, number).number = 0
    \/ invoiceAt(reg, number).status # Open

\* markPaid without require(invoice.number != 0, "not found")
markPaidRevertsNoNumber(reg, sender, number) ==
    \/ sender # owner
    \/ invoiceAt(reg, number).status # Open

\* InvoiceRegistry.markPaid: whether the call of `sender` reverts in registry
\* state `reg`
markPaidReverts(reg, sender, number) ==
    \/ sender # owner                          \* onlyOwner
    \/ invoiceAt(reg, number).number = 0       \* require(invoice.number != 0)
    \/ invoiceAt(reg, number).status # Open    \* require(invoice.status == Status.Open)

\* markPaid without `invoice.status = Status.Paid`
markPaidHashOnly(reg, sender, number, txHash) ==
    IF markPaidReverts(reg, sender, number) THEN reg
    ELSE [reg EXCEPT ![number].paidTxHash = txHash]

\* InvoiceRegistry.markPaid: the registry after the call
markPaid(reg, sender, number, txHash) ==
    IF markPaidReverts(reg, sender, number) THEN reg
    ELSE [reg EXCEPT ![number].status = Paid, ![number].paidTxHash = txHash]

\* the numbers assigned so far
assigned(reg) == {n \in DOMAIN reg : reg[n].number # 0}

\* any account calls createInvoice with arguments of its choice; `call` keeps
\* the call, whether it reverted and the number it returned
CallCreateInvoice ==
    /\ nextInvoiceNumber <= MaxInvoices
    /\ \E sender \in Accounts, payee \in {"zero"} \cup Payees,
          currency \in {"zero", "alphaUsd"}, amount \in {0, 1},
          dueDate \in {"past", "future"}, invoiceId \in PaidIds :
        LET out == createInvoice([invoices |-> regInvoices,
                                  nextInvoiceNumber |-> nextInvoiceNumber],
                                 payee, currency, amount, dueDate, invoiceId)
        IN  /\ regInvoices' = out.invoices
            /\ nextInvoiceNumber' = out.nextInvoiceNumber
            /\ call' = [pc |-> "createInvoice", sender |-> sender,
                        reverted |-> createInvoiceReverts(payee, currency, amount, dueDate),
                        created |-> Cardinality(assigned(regInvoices)),
                        returned |-> nextInvoiceNumber]
    /\ UNCHANGED <<version, txs, regTxs, invoices, generation, sent, delivered, req,
                   clients, streams, scan>>

\* any account calls markPaid with a number and a hash of its choice; `call`
\* keeps the call, whether it reverted and the records before it
CallMarkPaid ==
    /\ \E sender \in Accounts, number \in 0..(MaxInvoices + 1), txHash \in 1..MaxTxs :
        /\ regInvoices' = markPaid(regInvoices, sender, number, txHash)
        /\ call' = [pc |-> "markPaid", sender |-> sender, number |-> number,
                    txHash |-> txHash,
                    reverted |-> markPaidReverts(regInvoices, sender, number),
                    before |-> regInvoices]
    /\ UNCHANGED <<version, txs, nextInvoiceNumber, regTxs, invoices, generation,
                   sent, delivered, req, clients, streams, scan>>

\* the merchant account's registry transactions that are not mined yet
Pending == {h \in 1..Len(regTxs) : regTxs[h].status = "pending"}

\* the chain mines the oldest pending transaction of the merchant account,
\* the owner
Mine ==
    /\ Pending # {}
    /\ LET h == CHOOSE x \in Pending : \A y \in Pending : x <= y
           t == regTxs[h]
       IN  /\ regInvoices' = markPaid(regInvoices, owner, t.number, t.txHash)
           /\ regTxs' = [regTxs EXCEPT ![h].status =
                            IF markPaidReverts(regInvoices, owner, t.number)
                            THEN "reverted" ELSE "success"]
    /\ UNCHANGED <<version, txs, nextInvoiceNumber, invoices, generation, sent, delivered, req,
                   clients, streams, call, scan>>

\* walletClient.writeContract(markPaid): the transaction joins the pending ones
writeContract(by, number, txHash) ==
    Append(regTxs, [by |-> by, number |-> number, txHash |-> txHash,
                    status |-> "pending"])

---------------------------------------------------------------------------
(* HTTP requests.  A request is appended to `req` when it arrives and keeps *)
(* its slot after it was answered: `pc` is the await it stands at, `res`    *)
(* the response.                                                            *)

NewRequest(kind, number, txHash) ==
    [kind |-> kind, pc |-> "start", number |-> number, txHash |-> txHash,
     invoice |-> ZeroInvoice, latestBlock |-> 0, fromBlock |-> 0,
     nextNumber |-> 0, marked |-> 0, hash |-> 0, res |-> "none",
     after |-> {r \in 1..Len(req) : req[r].pc = "done"}]

\* res.json(...) / res.status(...).json(...): the handler returns; the loop
\* variables of a refresh-status pass go out of scope
Respond(q, res) ==
    IF q.kind = "refresh"
    THEN [q EXCEPT !.pc = "done", !.res = res, !.number = 0, !.txHash = 0,
                   !.hash = 0]
    ELSE [q EXCEPT !.pc = "done", !.res = res]

Running == {r \in 1..Len(req) : req[r].pc # "done"}

\* a catch that answers 500 and lets the handler run on
FailContinue ==
    /\ \E r \in Running : req' = [req EXCEPT ![r].res = "500:upstream"]
    /\ UNCHANGED <<version, txs, nextInvoiceNumber, regInvoices, regTxs, invoices,
                   generation, sent, delivered,
                   clients, streams, call, scan>>

\* an awaited ledger or registry call rejects (node unreachable, timeout): the
\* handler's catch answers 500 with the underlying message
Fail ==
    /\ \E r \in Running : req' = [req EXCEPT ![r] = Respond(req[r], "500:upstream")]
    /\ UNCHANGED <<version, txs, nextInvoiceNumber, regInvoices, regTxs, invoices,
                   generation, sent, delivered,
                   clients, streams, call, scan>>

---------------------------------------------------------------------------
(* POST /api/invoices/create (v3), await by await *)

\* the request arrives with a payee: nextInvoiceNumber is read
CreateStart ==
    /\ version = "v3"
    /\ Len(req) < MaxReqs
    /\ req' = Append(req, [NewRequest("create", 0, 0) EXCEPT
                              !.nextNumber = nextInvoiceNumber,
                              !.pc = "writeContract"])
    /\ UNCHANGED <<version, txs, nextInvoiceNumber, regInvoices, regTxs, invoices,
                   generation, sent, delivered,
                   clients, streams, call, scan>>

\* writeContract(createInvoice) with the identifier made from the number that
\* was read; the handler answers with that number.  `invoice` keeps the
\* record the registry stored for this call.
CreateWrite ==
    /\ nextInvoiceNumber <= MaxInvoices
    /\ \E r \in Running :
        /\ req[r].kind = "create"
        /\ req[r].pc = "writeContract"
        /\ \E payee \in Payees :
            LET out == createInvoice([invoices |-> regInvoices,
                                      nextInvoiceNumber |-> nextInvoiceNumber],
                                     payee, "alphaUsd", 1, "future",
                                     makeInvoiceId(req[r].nextNumber, "a"))
            IN  /\ regInvoices' = out.invoices
                /\ nextInvoiceNumber' = out.nextInvoiceNumber
                /\ req' = [req EXCEPT ![r] =
                              Respond([req[r] EXCEPT
                                          !.number = req[r].nextNumber,
                                          !.invoice = invoiceAt(out.invoices,
                                                                nextInvoiceNumber)],
                                      "created")]
    /\ UNCHANGED <<version, txs, regTxs, invoices, generation, sent, delivered,
                   clients, streams, call, scan>>

---------------------------------------------------------------------------
(* POST /api/invoices/mark-paid (v3, and the earlier version of v2) *)

\* v3: the predicate of logs.find on a decoded log of the receipt
matchesMarkPaid(log, invoice) ==
    /\ toLowerCase(log.address) = toLowerCase(ALPHA_USD)
    /\ toLowerCase(log.args.from) = toLowerCase(getAddress(invoice.payee))
    /\ toLowerCase(log.args.to) = toLowerCase(merchantAddress)
    /\ toLowerCase(log.args.memo) = toLowerCase(Hex(invoice.invoiceId, FALSE))

\* v2: the predicate of the earlier version
matchesMarkPaidEarlier(log, invoice) ==
    /\ toLowerCase(log.address) = toLowerCase(ALPHA_USD)
    /\ toLowerCase(log.args.to) = toLowerCase(getAddress(invoice.payee))
    /\ toLowerCase(log.args.memo) = toLowerCase(Hex(invoice.invoiceId, FALSE))

\* logs.find(...) over the receipt of transaction h: is there a matching log
hasMatching(h, invoice) ==
    \E i \in 1..Len(txs[h].logs) :
        IF version = "v2"
        THEN matchesMarkPaidEarlier(DecodedLog(h, i, FALSE), invoice)
        ELSE matchesMarkPaid(DecodedLog(h, i, FALSE), invoice)

\* the request arrives and getInvoice is read; a Paid invoice is answered at once
MarkPaidStart ==
    /\ version \in {"v2", "v3"}
    /\ Len(req) < MaxReqs
    /\ \E number \in 0..MaxInvoices, txHash \in 1..MaxTxs :
        LET q == [NewRequest("markPaid", number, txHash) EXCEPT
                     !.invoice = getInvoice(number),
                     !.pc = "getTransactionReceipt"]
        IN  req' = Append(req, IF q.invoice.status # 0
                               THEN Respond(q, "already-paid") ELSE q)
    /\ UNCHANGED <<version, txs, nextInvoiceNumber, regInvoices, regTxs, invoices,
                   generation, sent, delivered,
                   clients, streams, call, scan>>

\* what the handler does with the receipt of q.txHash
markPaidVerify(q) ==
    IF q.txHash \notin 1..Len(txs) THEN Respond(q, "500:receipt-not-found")
    ELSE IF txs[q.txHash].status # "success" THEN Respond(q, "400:not-successful")
    ELSE IF ~hasMatching(q.txHash, q.invoice) THEN Respond(q, "400:no-match")
    ELSE [q EXCEPT !.pc = "writeContract"]

\* getTransactionReceipt returns: the receipt is checked
MarkPaidVerify ==
    /\ \E r \in Running :
        /\ req[r].kind = "markPaid"
        /\ req[r].pc = "getTransactionReceipt"
        /\ req' = [req EXCEPT ![r] = markPaidVerify(req[r])]
    /\ UNCHANGED <<version, txs, nextInvoiceNumber, regInvoices, regTxs, invoices,
                   generation, sent, delivered,
                   clients, streams, call, scan>>

\* after writeContract returned the hash: v3 awaits the receipt, v2 answers
afterWrite(q, hash) ==
    IF version = "v2" THEN Respond([q EXCEPT !.hash = hash], "hash")
    ELSE [q EXCEPT !.hash = hash, !.pc = "waitForTransactionReceipt"]

\* writeContract(markPaid): viem estimates gas first, so a call that reverts
\* on the mined state throws; otherwise the transaction is sent
MarkPaidWrite ==
    /\ \E r \in Running :
        /\ req[r].kind = "markPaid"
        /\ req[r].pc = "writeContract"
        /\ IF markPaidReverts(regInvoices, owner, req[r].number)
           THEN /\ req' = [req EXCEPT ![r] = Respond(req[r], "500:reverted")]
                /\ regTxs' = regTxs
           ELSE /\ regTxs' = writeContract(r, req[r].number, req[r].txHash)
                /\ req' = [req EXCEPT ![r] = afterWrite(req[r], Len(regTxs) + 1)]
    /\ UNCHANGED <<version, txs, nextInvoiceNumber, regInvoices, invoices,
                   generation, sent, delivered,
                   clients, streams, call, scan>>

\* v3: waitForTransactionReceipt returns the receipt, whatever its status
MarkPaidConfirm ==
    /\ \E r \in Running :
        /\ req[r].kind = "markPaid"
        /\ req[r].pc = "waitForTransactionReceipt"
        /\ regTxs[req[r].hash].status # "pending"
        /\ req' = [req EXCEPT ![r] = Respond(req[r], "hash")]
    /\ UNCHANGED <<version, txs, nextInvoiceNumber, regInvoices, regTxs, invoices,
                   generation, sent, delivered,
                   clients, streams, call, scan>>

---------------------------------------------------------------------------
(* GET /api/invoices/refresh-status (v3) *)

LOOKBACK_BLOCKS == 200000
REFRESH_LOOKBACK_BLOCKS == 5000

\* ?lookback= as the handler reads it: -1 stands for an absent or non-decimal
\* parameter, which the regular expression test turns into the default
LookbackParams == {-1, 1}

cappedLookback(lookbackParam) ==
    LET lookback == IF lookbackParam >= 0 THEN lookbackParam
                    ELSE REFRESH_LOOKBACK_BLOCKS
        maxLookback == IF lookback > 0 THEN lookback ELSE REFRESH_LOOKBACK_BLOCKS
    IN  IF maxLookback > LOOKBACK_BLOCKS THEN LOOKBACK_BLOCKS ELSE maxLookback

\* fromBlock without the test `latestBlock > cappedLookback`
fromBlockNoClamp(latestBlock, lookbackParam) ==
    latestBlock - cappedLookback(lookbackParam)

fromBlockOf(latestBlock, lookbackParam) ==
    IF latestBlock > cappedLookback(lookbackParam)
    THEN latestBlock - cappedLookback(lookbackParam) ELSE 0

\* client.getLogs({address: ALPHA_USD, event, fromBlock, toBlock}): the token's
\* logs of the blocks fromBlock..toBlock; a block once mined never changes
getLogs(fromBlock, toBlock) ==
    {r \in AlphaLogRefs :
        fromBlock <= blockNumber(r[1]) /\ blockNumber(r[1]) <= toBlock}

\* a memoIndex key that leaves the memo out
memoKeyNoMemo(from, memo) == <<toLowerCase(from)>>

\* the key of memoIndex for a sender and a memo
memoKey(from, memo) == <<toLowerCase(from), toLowerCase(memo)>>

\* one iteration of the loop over `logs`: is `log` put under `key`
indexes(log, key) ==
    /\ toLowerCase(log.args.to) = toLowerCase(merchantAddress)
    /\ memoKey(log.args.from, log.args.memo) = key

\* the logs the loop over `logs` puts under `key`: those to the merchant
indexedUnder(fromBlock, toBlock, key) ==
    {r \in getLogs(fromBlock, toBlock) :
        indexes(DecodedLog(r[1], r[2], FALSE), key)}

\* memoIndex.get(key) after the loop: Map.set overwrites, so the last log in
\* ledger order wins; 0 stands for undefined
memoIndexGet(fromBlock, toBlock, key) ==
    LET hits == indexedUnder(fromBlock, toBlock, key)
    IN  IF hits = {} THEN 0
        ELSE (CHOOSE r \in hits : \A o \in hits : o[1] <= r[1])[1]

\* the transaction memoIndex holds for the invoice, 0 when there is none
txHashFor(q, invoice) ==
    memoIndexGet(q.fromBlock, q.latestBlock,
                 memoKey(getAddress(invoice.payee), Hex(invoice.invoiceId, FALSE)))

\* the test of `for (...; number < nextNumber; ...)`: go on with the next
\* invoice or answer { marked }
loopTest(q) ==
    IF q.number < q.nextNumber THEN [q EXCEPT !.pc = "getInvoice"]
    ELSE Respond(q, "marked")

\* the request arrives: getBlockNumber is read and the window is computed
RefreshStart ==
    /\ version = "v3"
    /\ Len(req) < MaxReqs
    /\ \E lookbackParam \in LookbackParams :
        req' = Append(req, [NewRequest("refresh", 0, 0) EXCEPT
                               !.latestBlock = getBlockNumber,
                               !.fromBlock = fromBlockOf(getBlockNumber, lookbackParam),
                               !.pc = "nextInvoiceNumber"])
    /\ UNCHANGED <<version, txs, nextInvoiceNumber, regInvoices, regTxs, invoices,
                   generation, sent, delivered,
                   clients, streams, call, scan>>

\* getLogs has returned and nextInvoiceNumber is read: the loop starts at 1
RefreshReadNext ==
    /\ \E r \in Running :
        /\ req[r].kind = "refresh"
        /\ req[r].pc = "nextInvoiceNumber"
        /\ req' = [req EXCEPT ![r] =
                      loopTest([req[r] EXCEPT !.nextNumber = nextInvoiceNumber,
                                              !.number = 1])]
    /\ UNCHANGED <<version, txs, nextInvoiceNumber, regInvoices, regTxs, invoices,
                   generation, sent, delivered,
                   clients, streams, call, scan>>

\* the loop body without `if (invoice.status !== 0) continue`
refreshInvoiceNoStatusSkip(q, invoice) ==
    IF txHashFor(q, invoice) = 0 THEN loopTest([q EXCEPT !.number = q.number + 1])
    ELSE [q EXCEPT !.txHash = txHashFor(q, invoice), !.pc = "writeContract"]

\* the loop body up to writeContract, on the invoice that getInvoice returned
refreshInvoice(q, invoice) ==
    IF invoice.status # 0 THEN loopTest([q EXCEPT !.number = q.number + 1])
    ELSE IF txHashFor(q, invoice) = 0 THEN loopTest([q EXCEPT !.number = q.number + 1])
    ELSE [q EXCEPT !.txHash = txHashFor(q, invoice), !.pc = "writeContract"]

\* getInvoice(number) returns
RefreshGetInvoice ==
    /\ \E r \in Running :
        /\ req[r].kind = "refresh"
        /\ req[r].pc = "getInvoice"
        /\ req' = [req EXCEPT ![r] = refreshInvoice(req[r], getInvoice(req[r].number))]
    /\ UNCHANGED <<version, txs, nextInvoiceNumber, regInvoices, regTxs, invoices,
                   generation, sent, delivered,
                   clients, streams, call, scan>>

\* writeContract(markPaid) of the loop
RefreshWrite ==
    /\ \E r \in Running :
        /\ req[r].kind = "refresh"
        /\ req[r].pc = "writeContract"
        /\ IF markPaidReverts(regInvoices, owner, req[r].number)
           THEN /\ req' = [req EXCEPT ![r] = Respond(req[r], "500:reverted")]
                /\ regTxs' = regTxs
           ELSE /\ regTxs' = writeContract(r, req[r].number, req[r].txHash)
                /\ req' = [req EXCEPT ![r].hash = Len(regTxs) + 1,
                                      ![r].pc = "waitForTransactionReceipt"]
    /\ UNCHANGED <<version, txs, nextInvoiceNumber, regInvoices, invoices,
                   generation, sent, delivered,
                   clients, streams, call, scan>>

\* after waitForTransactionReceipt returned: marked++ and the next invoice
afterConfirm(q) ==
    loopTest([q EXCEPT !.marked = q.marked + 1, !.number = q.number + 1,
                       !.txHash = 0, !.hash = 0])

\* the loop going on without `await client.waitForTransactionReceipt`
RefreshConfirmNoWait ==
    /\ \E r \in Running :
        /\ req[r].kind = "refresh"
        /\ req[r].pc = "waitForTransactionReceipt"
        /\ req' = [req EXCEPT ![r] = afterConfirm(req[r])]
    /\ UNCHANGED <<version, txs, nextInvoiceNumber, regInvoices, regTxs, invoices,
                   generation, sent, delivered,
                   clients, streams, call, scan>>

\* waitForTransactionReceipt returns the receipt, whatever its status
RefreshConfirm ==
    /\ \E r \in Running :
        /\ req[r].kind = "refresh"
        /\ req[r].pc = "waitForTransactionReceipt"
        /\ regTxs[req[r].hash].status # "pending"
        /\ req' = [req EXCEPT ![r] = afterConfirm(req[r])]
    /\ UNCHANGED <<version, txs, nextInvoiceNumber, regInvoices, regTxs, invoices,
                   generation, sent, delivered,
                   clients, streams, call, scan>>

---------------------------------------------------------------------------
(* GET /api/transactions (v3).  The scan reads a ledger of its own, given   *)
(* as a set of logs at chosen blocks, so that the head lies more than one   *)
(* MAX_LOG_RANGE above block 0; each block holds one transaction, whose     *)
(* hash is the block number.  "address" is the address asked for.           *)

TRANSACTION_LOOKBACK_BLOCKS == 5000
MAX_LOG_RANGE == 500

\* chain heads and ?lookback= values around the chunk boundaries
ScanHeads == {0, 500, 501, 1002, 1503}
ScanLookbackParams == {-1, 1, 501, 1002}

\* the blocks at and next to a boundary of a chunk or of the window
ScanBlocks(head) ==
    {b \in {head - d : d \in {0, 1, 2, 500, 501, 502, 1001, 1002, 1003}} : b >= 0}

\* a log of the token: TransferWithMemo ("memo"), Transfer, or Mint
ScanLog(block, logIndex, kind, from, to, value) ==
    [blockNumber |-> block, transactionHash |-> block, logIndex |-> logIndex,
     kind |-> kind, from |-> from, to |-> to, value |-> value,
     memo |-> IF kind = "memo" THEN "memo" ELSE "null"]

\* who sends to whom: incoming, outgoing, to oneself, minted
ScanParties == {<<"other", "address">>, <<"address", "other">>,
                <<"address", "address">>, <<"zero", "address">>}

\* the ledgers scanned: one log anywhere, and possibly a second log
\* in the same transaction or in another block
ScanLedgers(head) ==
    UNION {LET first == ScanLog(b, 0, k, p[1], p[2], v)
           IN  {{first}} \cup
               {{first, ScanLog(b2, IF b2 = b THEN 1 ELSE 0, k2, "other",
                                "address", 10000)} :
                   b2 \in ScanBlocks(head), k2 \in {"memo", "transfer"}} :
           b \in ScanBlocks(head), k \in {"memo", "transfer", "mint"},
           p \in ScanParties, v \in {100, 10000}}

cappedLookbackTx(lookbackParam) ==
    LET lookback == IF lookbackParam >= 0 THEN lookbackParam
                    ELSE TRANSACTION_LOOKBACK_BLOCKS
        maxLookback == IF lookback > 0 THEN lookback ELSE TRANSACTION_LOOKBACK_BLOCKS
    IN  IF maxLookback > LOOKBACK_BLOCKS THEN LOOKBACK_BLOCKS ELSE maxLookback

minBlockOf(latestBlock, lookbackParam) ==
    IF latestBlock > cappedLookbackTx(lookbackParam)
    THEN latestBlock - cappedLookbackTx(lookbackParam) ELSE 0

\* logs in the order a node returns them: by block, then by log index
RECURSIVE ordered(_)
ordered(logs) ==
    IF logs = {} THEN <<>>
    ELSE LET first == CHOOSE l \in logs : \A o \in logs :
                          \/ l.blockNumber < o.blockNumber
                          \/ l.blockNumber = o.blockNumber /\ l.logIndex <= o.logIndex
         IN  <<first>> \o ordered(logs \ {first})

\* client.getLogs({event, args: {[party]: address}, fromBlock, toBlock})
scanGetLogs(ledger, kind, party, fromBlock, toBlock) ==
    ordered({l \in ledger : /\ l.kind = kind
                            /\ l[party] = "address"
                            /\ fromBlock <= l.blockNumber
                            /\ l.blockNumber <= toBlock})

\* the record the per-kind maps keep of a log
scanEntry(log, kind) ==
    [from |-> IF kind = "mint" THEN "zero" ELSE log.from,
     to |-> log.to,
     memo |-> IF kind = "memo" THEN log.memo ELSE "null",
     value |-> log.value,
     txHash |-> log.transactionHash,
     logIndex |-> log.logIndex,
     blockNumber |-> log.blockNumber]

\* Map.has(txHash) on a map kept as the sequence of its values
hasTx(map, txHash) == \E i \in 1..Len(map) : map[i].txHash = txHash


\* the body of one `for (const log of ...)` loop of the chunk, for a log of `kind`
scanAddLog(q, log, kind) ==
    LET key == <<log.transactionHash, log.logIndex>>
        seen == [q EXCEPT !.memoKeySet = @ \cup {key}]
        entry == scanEntry(log, kind)
    IN  IF kind = "transfer" /\ log.from = ZERO_ADDRESS.v THEN q
        ELSE IF key \in q.memoKeySet THEN q
        ELSE IF kind = "memo"
             THEN IF hasTx(q.memoLogByTx, entry.txHash) THEN seen
                  ELSE [seen EXCEPT !.memoLogByTx = Append(@, entry)]
        ELSE IF kind = "transfer"
             THEN IF hasTx(q.transferLogByTx, entry.txHash) THEN seen
                  ELSE [seen EXCEPT !.transferLogByTx = Append(@, entry)]
        ELSE IF hasTx(q.mintLogByTx, entry.txHash) THEN seen
             ELSE [seen EXCEPT !.mintLogByTx = Append(@, entry)]

RECURSIVE scanAddLogs(_, _, _)
scanAddLogs(q, logs, kind) ==
    IF logs = <<>> THEN q
    ELSE scanAddLogs(scanAddLog(q, Head(logs), kind), Tail(logs), kind)

\* the five getLogs calls over fromBlock..toBlock and the three loops over
\* what they return
scanRange(q, fromBlock, toBlock) ==
    LET memoLogs == scanGetLogs(q.ledger, "memo", "to", fromBlock, toBlock)
                        \o scanGetLogs(q.ledger, "memo", "from", fromBlock, toBlock)
        transferLogs == scanGetLogs(q.ledger, "transfer", "to", fromBlock, toBlock)
                        \o scanGetLogs(q.ledger, "transfer", "from", fromBlock, toBlock)
        mintLogs == scanGetLogs(q.ledger, "mint", "to", fromBlock, toBlock)
        withQuery == [q EXCEPT !.queries = Append(@, <<fromBlock, toBlock>>)]
    IN  scanAddLogs(scanAddLogs(scanAddLogs(withQuery, memoLogs, "memo"),
                                transferLogs, "transfer"),
                    mintLogs, "mint")

\* byTx after the loop over transferLogByTx
byTxTransfers(q) ==
    [i \in 1..Len(q.transferLogByTx) |->
        LET transferLog == q.transferLogByTx[i]
        IN  IF hasTx(q.memoLogByTx, transferLog.txHash)
            THEN [transferLog EXCEPT !.memo =
                     q.memoLogByTx[CHOOSE j \in 1..Len(q.memoLogByTx) :
                         q.memoLogByTx[j].txHash = transferLog.txHash].memo]
            ELSE transferLog]


\* one step of the loop over memoLogByTx on byTx
byTxMemo(byTx, memoLog) ==
    IF hasTx(byTx, memoLog.txHash)
    THEN LET i == CHOOSE j \in 1..Len(byTx) : byTx[j].txHash = memoLog.txHash
         IN  IF byTx[i].value < 10000 /\ memoLog.value >= 10000
             THEN [byTx EXCEPT ![i] = memoLog]
             ELSE byTx
    ELSE Append(byTx, memoLog)

\* one step of the loop over mintLogByTx on byTx
byTxMint(byTx, mintLog) ==
    IF hasTx(byTx, mintLog.txHash) THEN byTx ELSE Append(byTx, mintLog)

RECURSIVE byTxAll(_, _, _)
byTxAll(byTx, logs, kind) ==
    IF logs = <<>> THEN byTx
    ELSE byTxAll(IF kind = "memo" THEN byTxMemo(byTx, Head(logs))
                 ELSE byTxMint(byTx, Head(logs)),
                 Tail(logs), kind)

\* Array.sort((a, b) => Number(b.blockNumber - a.blockNumber)): stable,
\* highest block first
RECURSIVE sortByBlock(_)
sortByBlock(entries) ==
    IF entries = <<>> THEN <<>>
    ELSE LET i == CHOOSE j \in 1..Len(entries) :
                      /\ \A k \in 1..Len(entries) :
                            entries[k].blockNumber <= entries[j].blockNumber
                      /\ \A k \in 1..(j - 1) :
                            entries[k].blockNumber < entries[j].blockNumber
         IN  <<entries[i]>>
                 \o sortByBlock([k \in 1..(Len(entries) - 1) |->
                                    IF k < i THEN entries[k] ELSE entries[k + 1]])

\* .map(({ blockNumber, ...rest }) => rest)
withoutBlock(e) ==
    [from |-> e.from, to |-> e.to, memo |-> e.memo, value |-> e.value,
     txHash |-> e.txHash, logIndex |-> e.logIndex]

\* after the loop: byTx, sortedTransfers and res.json({ transfers })
sortedTransfers(q) ==
    LET byTx == byTxAll(byTxAll(byTxTransfers(q), q.memoLogByTx, "memo"),
                        q.mintLogByTx, "mint")
        sorted == sortByBlock(byTx)
    IN  [i \in 1..Len(sorted) |-> withoutBlock(sorted[i])]

scanRespond(q) == [q EXCEPT !.pc = "done", !.transfers = sortedTransfers(q)]

\* the test of `while (endBlock >= minBlock)`
scanLoopTest(q) ==
    IF q.endBlock >= q.minBlock THEN [q EXCEPT !.pc = "getLogs"] ELSE scanRespond(q)

\* an iteration that goes on two blocks below the chunk's first block
scanChunkGap(q) ==
    LET startBlock == IF q.endBlock > MAX_LOG_RANGE THEN q.endBlock - MAX_LOG_RANGE
                      ELSE 0
        boundedStart == IF startBlock < q.minBlock THEN q.minBlock ELSE startBlock
        merged == scanRange(q, boundedStart, q.endBlock)
    IN  IF boundedStart = 0 \/ boundedStart = q.minBlock THEN scanRespond(merged)
        ELSE scanLoopTest([merged EXCEPT !.endBlock = boundedStart - 2])

\* an iteration that leaves endBlock where it was
scanChunkNoStep(q) ==
    LET startBlock == IF q.endBlock > MAX_LOG_RANGE THEN q.endBlock - MAX_LOG_RANGE
                      ELSE 0
        boundedStart == IF startBlock < q.minBlock THEN q.minBlock ELSE startBlock
        merged == scanRange(q, boundedStart, q.endBlock)
    IN  IF boundedStart = 0 \/ boundedStart = q.minBlock THEN scanRespond(merged)
        ELSE scanLoopTest(q)

\* one iteration of the while loop
scanChunk(q) ==
    LET startBlock == IF q.endBlock > MAX_LOG_RANGE THEN q.endBlock - MAX_LOG_RANGE
                      ELSE 0
        boundedStart == IF startBlock < q.minBlock THEN q.minBlock ELSE startBlock
        merged == scanRange(q, boundedStart, q.endBlock)
    IN  IF boundedStart = 0 \/ boundedStart = q.minBlock THEN scanRespond(merged)
        ELSE scanLoopTest([merged EXCEPT !.endBlock = boundedStart - 1])

\* the request as it is before the handler runs, over a ledger with head `head`
NewScan(head, ledger) ==
    [pc |-> "start", head |-> head, ledger |-> ledger, latestBlock |-> 0,
     minBlock |-> 0, endBlock |-> 0, memoKeySet |-> {}, memoLogByTx |-> <<>>,
     transferLogByTx |-> <<>>, mintLogByTx |-> <<>>, queries |-> <<>>,
     transfers |-> <<>>]

\* the request arrives: getBlockNumber is read, the window is computed
TransactionsStart ==
    /\ scan.pc = "start"
    /\ \E lookbackParam \in ScanLookbackParams :
        scan' = scanLoopTest([scan EXCEPT
                    !.latestBlock = scan.head,
                    !.minBlock = minBlockOf(scan.head, lookbackParam),
                    !.endBlock = scan.head])
    /\ UNCHANGED <<version, txs, nextInvoiceNumber, regInvoices, regTxs, invoices,
                   generation, sent, delivered, req, clients, streams, call>>

\* the getLogs calls of one chunk return: the chunk is merged, the loop goes
\* on or the handler answers
TransactionsChunk ==
    /\ scan.pc = "getLogs"
    /\ scan' = scanChunk(scan)
    /\ UNCHANGED <<version, txs, nextInvoiceNumber, regInvoices, regTxs, invoices,
                   generation, sent, delivered, req, clients, streams, call>>

\* getBlockNumber or a getLogs call of the scan rejects: the handler's catch
\* answers 500 and the loop is left
TransactionsFail ==
    /\ scan.pc \in {"start", "getLogs"}
    /\ scan' = [scan EXCEPT !.pc = "failed"]
    /\ UNCHANGED <<version, txs, nextInvoiceNumber, regInvoices, regTxs, invoices,
                   generation, sent, delivered, req, clients, streams, call>>

---------------------------------------------------------------------------
(* The lookback windows of refresh-status and transactions on chain heads   *)
(* and ?lookback= values around the default and the hard maximum            *)

\* chain heads around the default lookback and the hard maximum
WindowHeads ==
    {0, 1, MAX_LOG_RANGE + 1, REFRESH_LOOKBACK_BLOCKS - 1, REFRESH_LOOKBACK_BLOCKS,
     REFRESH_LOOKBACK_BLOCKS + 1, LOOKBACK_BLOCKS, LOOKBACK_BLOCKS + 1,
     LOOKBACK_BLOCKS + REFRESH_LOOKBACK_BLOCKS}

\* ?lookback= values: -1 stands for an absent or non-decimal parameter
WindowLookbackParams ==
    {-1, 0, 1, MAX_LOG_RANGE, REFRESH_LOOKBACK_BLOCKS + 1, LOOKBACK_BLOCKS,
     LOOKBACK_BLOCKS + 1}

\* refresh-status up to its getLogs call: the window and the one query made
RefreshWindow ==
    /\ call.pc = "request"
    /\ call' = [pc |-> "refresh", head |-> call.head,
                lookbackParam |-> call.lookbackParam,
                lookback |-> cappedLookback(call.lookbackParam),
                fromBlock |-> fromBlockOf(call.head, call.lookbackParam),
                queries |-> <<[fromBlock |-> fromBlockOf(call.head, call.lookbackParam),
                               toBlock |-> call.head]>>]
    /\ UNCHANGED <<version, txs, nextInvoiceNumber, regInvoices, regTxs, invoices,
                   generation, sent, delivered, req, clients, streams, scan>>

\* transactions up to its chunk loop: the window
TransactionsWindow ==
    /\ call.pc = "request"
    /\ call' = [pc |-> "transactions", head |-> call.head,
                lookbackParam |-> call.lookbackParam,
                lookback |-> cappedLookbackTx(call.lookbackParam),
                fromBlock |-> minBlockOf(call.head, call.lookbackParam),
                queries |-> <<>>]
    /\ UNCHANGED <<version, txs, nextInvoiceNumber, regInvoices, regTxs, invoices,
                   generation, sent, delivered, req, clients, streams, scan>>

---------------------------------------------------------------------------
(* Server-sent events: sse.ts and GET /api/events *)

\* connections accepted on /api/events in one run
MaxClients == 2

\* an id crypto.randomUUID() never returned
UnknownId == 0

\* clients.findIndex(c => c.id === id), 1-based; -1 when there is none
findIndex(cs, id) ==
    LET hits == {i \in 1..Len(cs) : cs[i] = id}
    IN  IF hits = {} THEN -1 ELSE CHOOSE i \in hits : \A j \in hits : i <= j

\* clients.splice(idx, 1); a negative idx counts from the end as in JavaScript
splice(cs, idx) ==
    LET at == IF idx < 0 THEN Len(cs) + 1 + idx ELSE idx
    IN  [k \in 1..(Len(cs) - (IF at \in 1..Len(cs) THEN 1 ELSE 0)) |->
            IF k < at THEN cs[k] ELSE cs[k + 1]]

\* removeClient without `if (idx >= 0)`
removeClientNoGuard(cs, id) ==
    IF cs = <<>> THEN cs ELSE splice(cs, findIndex(cs, id))

\* sse.ts: removeClient(id) on the array cs
removeClient(cs, id) ==
    IF findIndex(cs, id) >= 0 THEN splice(cs, findIndex(cs, id)) ELSE cs

\* sse.ts: addClient(res), the array after the push; the id is the next unused
addClient(cs, id) == Append(cs, id)

\* GET /api/events without the initial push
ConnectNoPush ==
    /\ version = "v1"
    /\ Len(streams) < MaxClients
    /\ clients' = addClient(clients, Len(streams) + 1)
    /\ streams' = Append(streams, [state |-> "open", got |-> <<>>])
    /\ UNCHANGED <<version, txs, nextInvoiceNumber, regInvoices, regTxs, invoices,
                   generation, sent, delivered, req, call, scan>>

\* GET /api/events: addClient, then the initial push of the whole store
Connect ==
    /\ version = "v1"
    /\ Len(streams) < MaxClients
    /\ clients' = addClient(clients, Len(streams) + 1)
    /\ streams' = Append(streams,
            write([state |-> "open", got |-> <<>>],
                  [event |-> "invoices", data |-> invoices, gen |-> generation]))
    /\ UNCHANGED <<version, txs, nextInvoiceNumber, regInvoices, regTxs, invoices,
                   generation, sent, delivered, req, call, scan>>

\* the connection of a client breaks; its 'close' event is not handled yet
Break ==
    /\ \E id \in DOMAIN streams :
        /\ streams[id].state = "open"
        /\ streams' = [streams EXCEPT ![id].state = "broken"]
    /\ UNCHANGED <<version, txs, nextInvoiceNumber, regInvoices, regTxs, invoices,
                   generation, sent, delivered, req, clients, call, scan>>

\* req.on('close', () => removeClient(id)) of GET /api/events
Close ==
    /\ \E id \in DOMAIN streams :
        /\ streams[id].state # "closed"
        /\ streams' = [streams EXCEPT ![id] = [state |-> "closed", got |-> <<>>]]
        /\ clients' = removeClient(clients, id)
    /\ UNCHANGED <<version, txs, nextInvoiceNumber, regInvoices, regTxs, invoices,
                   generation, sent, delivered, req, call, scan>>

\* the ids of connections already closed and the id never issued
Removed == {UnknownId} \cup {id \in DOMAIN streams : streams[id].state = "closed"}

\* removeClient called again for a connection already closed, or with an id
\* that was never issued
Unsubscribe ==
    /\ \E id \in Removed : clients' = removeClient(clients, id)
    /\ UNCHANGED <<version, txs, nextInvoiceNumber, regInvoices, regTxs, invoices,
                   generation, sent, delivered, req, streams, call, scan>>

---------------------------------------------------------------------------
(* The memo codec: toMemoHex (invoices.ts) and decodeInvoiceId (the client) *)

\* pad(..., { size: 32 }): the bytes of a memo
MemoSize == 32

\* characters of an identifier: a letter, U+0000 and a letter of two bytes
Chars == {"a", "nul", "e'"}

\* the UTF-8 bytes of a character
utf8(c) ==
    CASE c = "a" -> <<97>>
      [] c = "nul" -> <<0>>
      [] c = "e'" -> <<195, 169>>

\* characters an identifier starts with before its run of letters
MaxPrefix == 2

\* lengths of the run of letters, which take the identifier up to MemoSize
\* bytes and beyond
Fillers == {0, MemoSize - 3, MemoSize - 2, MemoSize - 1, MemoSize}

\* the identifiers handed to the codec
Identifiers ==
    {p \o [k \in 1..n |-> "a"] :
        p \in UNION {[1..m -> Chars] : m \in 0..MaxPrefix}, n \in Fillers}

\* viem stringToHex(value): the UTF-8 bytes of the string
RECURSIVE stringToHex(_)
stringToHex(str) ==
    IF str = <<>> THEN <<>> ELSE utf8(Head(str)) \o stringToHex(Tail(str))

\* viem pad(hex, { size }): zero bytes put in front (dir defaults to 'left')
\* up to `size` bytes; SizeExceedsPaddingSizeError when the value is longer
pad(bytes, size) ==
    IF Len(bytes) > size THEN "SizeExceedsPaddingSizeError"
    ELSE [k \in 1..(size - Len(bytes)) |-> 0] \o bytes

\* invoices.ts: toMemoHex(invoiceId), on the bytes of the memo
toMemoHexBytes(invoiceId) == pad(stringToHex(invoiceId), MemoSize)

\* viem hexToString(hex): the bytes decoded as UTF-8, nothing trimmed
RECURSIVE hexToString(_)
hexToString(bytes) ==
    IF bytes = <<>> THEN <<>>
    ELSE IF Head(bytes) = 0 THEN <<"nul">> \o hexToString(Tail(bytes))
    ELSE IF Head(bytes) = 97 THEN <<"a">> \o hexToString(Tail(bytes))
    ELSE IF Len(bytes) >= 2 /\ SubSeq(bytes, 1, 2) = utf8("e'")
         THEN <<"e'">> \o hexToString(Tail(Tail(bytes)))
    ELSE <<"U+FFFD">> \o hexToString(Tail(bytes))

\* String.replace(/\u0000/g, ''): every U+0000 of the string removed
replaceNul(str) == SelectSeq(str, LAMBDA c : c # "nul")

\* decodeInvoiceId without the replace
decodeKeepNul(invoiceId) ==
    IF invoiceId = <<>> THEN <<>> ELSE hexToString(invoiceId)

\* the client's decodeInvoiceId(invoiceId)
decodeInvoiceId(invoiceId) ==
    IF invoiceId = <<>> THEN <<>> ELSE replaceNul(hexToString(invoiceId))

\* toMemoHex is called with the identifier
Encode ==
    /\ call.pc = "input"
    /\ call' = IF Len(stringToHex(call.s)) > MemoSize
               THEN [pc |-> "threw", s |-> call.s,
                     error |-> toMemoHexBytes(call.s)]
               ELSE [pc |-> "encoded", s |-> call.s,
                     memo |-> toMemoHexBytes(call.s)]
    /\ UNCHANGED <<version, txs, nextInvoiceNumber, regInvoices, regTxs, invoices,
                   generation, sent, delivered, req, clients, streams, scan>>

\* decodeInvoiceId is called with the memo
Decode ==
    /\ call.pc = "encoded"
    /\ call' = [pc |-> "decoded", s |-> call.s, memo |-> call.memo,
                out |-> decodeInvoiceId(call.memo)]
    /\ UNCHANGED <<version, txs, nextInvoiceNumber, regInvoices, regTxs, invoices,
                   generation, sent, delivered, req, clients, streams, scan>>

---------------------------------------------------------------------------

Init ==
    /\ version \in {"v1", "v2", "v3"}
    /\ txs = <<>>
    /\ nextInvoiceNumber = 1
    /\ regInvoices = <<>>
    /\ regTxs = <<>>
    /\ invoices = <<>>
    /\ generation = 0
    /\ sent = <<>>
    /\ delivered = [h \in 1..MaxTxs |-> 0]
    /\ req = <<>>
    /\ clients = <<>>
    /\ streams = <<>>
    /\ call = [pc |-> "idle"]
    /\ scan = [pc |-> "idle"]

\* v1: generate and the chain watcher
NextV1 ==
    \/ Transfer
    \/ Generate
    \/ Watch

\* v1 with clients of /api/events
NextSse ==
    \/ Generate
    \/ Watch
    \/ Connect
    \/ Break
    \/ Close
    \/ Unsubscribe

\* the registry handlers of v2 and v3
NextRegistry ==
    \/ Transfer
    \/ CreateInvoice
    \/ Mine
    \/ Fail
    \/ MarkPaidStart
    \/ MarkPaidVerify
    \/ MarkPaidWrite
    \/ MarkPaidConfirm
    \/ RefreshStart
    \/ RefreshReadNext
    \/ RefreshGetInvoice
    \/ RefreshWrite
    \/ RefreshConfirm

Next ==
    \/ Generate
    \/ Watch
    \/ NextRegistry

\* every version
Spec == Init /\ [][Next]_vars

\* a deployment of v1
InitV1 == Init /\ version = "v1"

SpecV1 == InitV1 /\ [][NextV1]_vars

\* v3 serving one transactions request over a ledger with a far head
InitScan ==
    /\ version = "v3"
    /\ txs = <<>>
    /\ nextInvoiceNumber = 1
    /\ regInvoices = <<>>
    /\ regTxs = <<>>
    /\ invoices = <<>>
    /\ generation = 0
    /\ sent = <<>>
    /\ delivered = [h \in 1..MaxTxs |-> 0]
    /\ req = <<>>
    /\ clients = <<>>
    /\ streams = <<>>
    /\ call = [pc |-> "idle"]
    /\ \E head \in ScanHeads : \E ledger \in ScanLedgers(head) :
           scan = NewScan(head, ledger)

NextScan == TransactionsStart \/ TransactionsChunk

SpecScan == InitScan /\ [][NextScan]_vars

\* a deployment of v3
\* v1 started on a chain where every identifier has its settling transfer;
\* deliveries are not counted here, the counters start at their cap
InitSse ==
    /\ version = "v1"
    /\ txs = [h \in 1..MaxTxs |->
                [status |-> "success", logs |-> <<Settling(makeInvoiceId(h, "a"))>>]]
    /\ nextInvoiceNumber = 1
    /\ regInvoices = <<>>
    /\ regTxs = <<>>
    /\ invoices = <<>>
    /\ generation = 0
    /\ sent = <<>>
    /\ delivered = [h \in 1..MaxTxs |-> 2]
    /\ req = <<>>
    /\ clients = <<>>
    /\ streams = <<>>
    /\ call = [pc |-> "idle"]
    /\ scan = [pc |-> "idle"]

SpecSse == InitSse /\ [][NextSse]_vars

InitV3 == Init /\ version = "v3"

\* the contract by itself, called by any account
NextContract ==
    \/ CallCreateInvoice
    \/ CallMarkPaid

SpecContract == InitV3 /\ [][NextContract]_vars

\* refresh-status over a registry any account creates invoices in
NextRefresh ==
    \/ Transfer
    \/ CallCreateInvoice
    \/ Mine
    \/ RefreshStart
    \/ RefreshReadNext
    \/ RefreshGetInvoice
    \/ RefreshWrite
    \/ RefreshConfirm

SpecRefresh == InitV3 /\ [][NextRefresh]_vars

\* create requests, overlapping or not, over a registry that other accounts
\* create invoices in
NextCreate ==
    \/ CreateStart
    \/ CreateWrite
    \/ CallCreateInvoice
    \/ Fail

SpecCreate == InitV3 /\ [][NextCreate]_vars

\* a memo transfer log whose sender is the zero address and whose memo is
\* zero, as the token logs for a mint with an empty memo: the one log that
\* matches the all-zero record getInvoice returns for an unassigned number
ZeroMemoMint == Event("alphaUsd", "zero", "merchant", "zero")

\* mark-paid requests for any number, assigned or not: the ledger holds the
\* transfer that settles invoice 1 and a zero-memo mint
InitMarkPaid ==
    /\ version = "v3"
    /\ txs = <<[status |-> "success", logs |-> <<Settling(makeInvoiceId(1, "a"))>>],
               [status |-> "success", logs |-> <<ZeroMemoMint>>]>>
    /\ nextInvoiceNumber = 1
    /\ regInvoices = <<>>
    /\ regTxs = <<>>
    /\ invoices = <<>>
    /\ generation = 0
    /\ sent = <<>>
    /\ delivered = [h \in 1..MaxTxs |-> 0]
    /\ req = <<>>
    /\ clients = <<>>
    /\ streams = <<>>
    /\ call = [pc |-> "idle"]
    /\ scan = [pc |-> "idle"]

NextMarkPaid ==
    \/ CreateInvoice
    \/ Mine
    \/ Fail
    \/ MarkPaidStart
    \/ MarkPaidVerify
    \/ MarkPaidWrite
    \/ MarkPaidConfirm

SpecMarkPaid == InitMarkPaid /\ [][NextMarkPaid]_vars

\* the amounts a transfer carries: the amount invoices are issued for, and
\* another one
Amounts == {1, 2}

\* the three matchers over a ledger whose transfers name the invoices and
\* carry any amount: v1 with its store and watcher, v3 with its registry
InitAmount ==
    /\ version \in {"v1", "v3"}
    /\ \E valueOf \in [1..MaxTxs -> Amounts] :
        txs = [h \in 1..MaxTxs |->
                 [status |-> "success",
                  logs |-> <<[Settling(makeInvoiceId(h, "a")) EXCEPT
                                 !.value = valueOf[h]]>>]]
    /\ nextInvoiceNumber = 1
    /\ regInvoices = <<>>
    /\ regTxs = <<>>
    /\ invoices = <<>>
    /\ generation = 0
    /\ sent = <<>>
    /\ delivered = [h \in 1..MaxTxs |-> 0]
    /\ req = <<>>
    /\ clients = <<>>
    /\ streams = <<>>
    /\ call = [pc |-> "idle"]
    /\ scan = [pc |-> "idle"]

NextAmount ==
    \/ Generate
    \/ Watch
    \/ CreateInvoice
    \/ Mine
    \/ MarkPaidStart
    \/ MarkPaidVerify
    \/ MarkPaidWrite
    \/ MarkPaidConfirm
    \/ RefreshStart
    \/ RefreshReadNext
    \/ RefreshGetInvoice
    \/ RefreshWrite
    \/ RefreshConfirm

SpecAmount == InitAmount /\ [][NextAmount]_vars

\* a request with a ?lookback= value arrives at a chain head
InitWindow ==
    /\ version = "v3"
    /\ txs = <<>>
    /\ nextInvoiceNumber = 1
    /\ regInvoices = <<>>
    /\ regTxs = <<>>
    /\ invoices = <<>>
    /\ generation = 0
    /\ sent = <<>>
    /\ delivered = [h \in 1..MaxTxs |-> 0]
    /\ req = <<>>
    /\ clients = <<>>
    /\ streams = <<>>
    /\ call \in {[pc |-> "request", head |-> head, lookbackParam |-> p] :
                    head \in WindowHeads, p \in WindowLookbackParams}
    /\ scan = [pc |-> "idle"]

NextWindow ==
    \/ RefreshWindow
    \/ TransactionsWindow

SpecWindow == InitWindow /\ [][NextWindow]_vars

\* the codec on one identifier
InitCodec ==
    /\ version = "v3"
    /\ txs = <<>>
    /\ nextInvoiceNumber = 1
    /\ regInvoices = <<>>
    /\ regTxs = <<>>
    /\ invoices = <<>>
    /\ generation = 0
    /\ sent = <<>>
    /\ delivered = [h \in 1..MaxTxs |-> 0]
    /\ req = <<>>
    /\ clients = <<>>
    /\ streams = <<>>
    /\ call \in {[pc |-> "input", s |-> id] : id \in Identifiers}
    /\ scan = [pc |-> "idle"]

NextCodec ==
    \/ Encode
    \/ Decode

SpecCodec == InitCodec /\ [][NextCodec]_vars


SpecV3 == InitV3 /\ [][NextRegistry]_vars

\* v3 where a handler that can take its next step takes it, a pending
\* transaction is mined and requests keep arriving while there is room
FairV3 == InitV3 /\ [][NextRegistry]_vars /\ WF_vars(NextRegistry)

\* the registry after the create handler has issued `count` invoices
RECURSIVE issued(_)
issued(count) ==
    IF count = 0 THEN [invoices |-> <<>>, nextInvoiceNumber |-> 1]
    ELSE createInvoice(issued(count - 1), "payerA", "alphaUsd", 1, "future",
                       makeInvoiceId(count, "a"))

\* refresh-status passes and a transactions scan: the registry holds none,
\* one or two Open invoices, the ledger the transfer that settles each of two
\* invoices, and a scan request has arrived at some chain head
InitPasses ==
    /\ version = "v3"
    /\ txs = [h \in 1..MaxTxs |->
                [status |-> "success", logs |-> <<Settling(makeInvoiceId(h, "a"))>>]]
    /\ \E count \in 0..MaxInvoices :
        /\ regInvoices = issued(count).invoices
        /\ nextInvoiceNumber = issued(count).nextInvoiceNumber
    /\ regTxs = <<>>
    /\ invoices = <<>>
    /\ generation = 0
    /\ sent = <<>>
    /\ delivered = [h \in 1..MaxTxs |-> 0]
    /\ req = <<>>
    /\ clients = <<>>
    /\ streams = <<>>
    /\ call = [pc |-> "idle"]
    /\ \E head \in ScanHeads : scan = NewScan(head, {})

NextPasses ==
    \/ Mine
    \/ Fail
    \/ RefreshStart
    \/ RefreshReadNext
    \/ RefreshGetInvoice
    \/ RefreshWrite
    \/ RefreshConfirm
    \/ TransactionsStart
    \/ TransactionsChunk
    \/ TransactionsFail

\* the steps of the scan after a call that returned
ScanSteps == TransactionsStart \/ TransactionsChunk

\* the steps of the passes after a call that returned, and the chain mining
PassSteps ==
    \/ Mine
    \/ RefreshReadNext
    \/ RefreshGetInvoice
    \/ RefreshWrite
    \/ RefreshConfirm

\* every awaited call returns or fails and a pending transaction is mined: a
\* handler whose call has returned takes its next step; no call is bound to
\* fail and no request is bound to arrive
FairPasses ==
    InitPasses /\ [][NextPasses]_vars /\ WF_vars(ScanSteps) /\ WF_vars(PassSteps)

---------------------------------------------------------------------------
(* Properties *)

\* the 'invoicePaid' notifications sent for invoice `number` of the current store
paidNotifications(number) ==
    {k \in 1..Len(sent) : /\ sent[k].event = "invoicePaid"
                          /\ sent[k].gen = generation
                          /\ sent[k].data.number = number}

\* C1: however often the watcher is handed the transfer that settles an
\* invoice of the store, in one batch or across batches, the invoice is Paid
\* with exactly one 'invoicePaid' notification broadcast for it, carrying the
\* transaction the store recorded; an Unpaid invoice has none.
C1_PaidOnceNotifiedOnce ==
    \A i \in 1..Len(invoices) :
        IF invoices[i].status = "Paid"
        THEN /\ Cardinality(paidNotifications(invoices[i].number)) = 1
             /\ \A k \in paidNotifications(invoices[i].number) :
                    sent[k].data = invoices[i]
        ELSE paidNotifications(invoices[i].number) = {}

\* an invoice of the first store whose settling transfer was delivered twice or
\* more: Paid, one notification
C1_Witness ==
    /\ generation = 1
    /\ \E i \in 1..Len(invoices) :
        /\ invoices[i].status = "Paid"
        /\ delivered[invoices[i].paidTxHash] >= 2
        /\ Cardinality(paidNotifications(invoices[i].number)) = 1

\* C2: once an invoice is Paid, in the registry or in the projection store,
\* its record (its paidTxHash with it) is the same after every step of the
\* watcher, of a mark-paid request, of a refresh-status pass and of the chain.
C2_OnePayingTransaction ==
    [][/\ \A n \in DOMAIN regInvoices :
            regInvoices[n].status = Paid => regInvoices'[n] = regInvoices[n]
       /\ generation' = generation =>
            \A i \in DOMAIN invoices :
                invoices[i].status = "Paid" => invoices'[i] = invoices[i]]_vars

\* a markPaid transaction naming another transfer reached a Paid invoice and
\* was reverted
C2_Witness ==
    \E h \in 1..Len(regTxs) :
        /\ regTxs[h].status = "reverted"
        /\ regTxs[h].number \in DOMAIN regInvoices
        /\ regInvoices[regTxs[h].number].status = Paid
        /\ regInvoices[regTxs[h].number].paidTxHash # regTxs[h].txHash

\* C3 as stated: an invoice number that is Paid, in the registry or in the
\* projection store, is Paid after every step.
C3_NumberStaysPaid ==
    [][/\ \A n \in DOMAIN regInvoices :
            regInvoices[n].status = Paid =>
                n \in DOMAIN regInvoices' /\ regInvoices'[n].status = Paid
       /\ \A i \in DOMAIN invoices :
            invoices[i].status = "Paid" =>
                i \in DOMAIN invoices' /\ invoices'[i].status = "Paid"]_vars

\* C3: a registry invoice that is Paid is Paid after every step, and a Paid
\* invoice of the projection store is Paid after every step that is not a
\* generate request, which replaces the whole store by Unpaid invoices.
C3_StaysPaidUntilGenerate ==
    [][/\ \A n \in DOMAIN regInvoices :
            regInvoices[n].status = Paid =>
                n \in DOMAIN regInvoices' /\ regInvoices'[n].status = Paid
       /\ \A i \in DOMAIN invoices :
            invoices[i].status = "Paid" =>
                \/ i \in DOMAIN invoices' /\ invoices'[i].status = "Paid"
                \/ /\ generation' = generation + 1
                   /\ \A j \in DOMAIN invoices' : invoices'[j].status = "Unpaid"]_vars

\* the second store: an invoice number that was notified Paid in the first
\* store is Unpaid, and its transfer was still delivered after that
C3_Witness ==
    /\ generation = 2
    /\ \E i \in 1..Len(invoices), k \in 1..Len(sent) :
        /\ sent[k].event = "invoicePaid"
        /\ sent[k].gen = 1
        /\ sent[k].data.number = invoices[i].number
        /\ invoices[i].status = "Unpaid"
    /\ \E j \in 1..Len(invoices) : invoices[j].status = "Paid"

\* the memos of the logs of ledger transaction h
memosOf(h) ==
    IF h \in 1..Len(txs) THEN {txs[h].logs[i].memo : i \in 1..Len(txs[h].logs)}
    ELSE {}

\* C4: an invoice is Paid, in the registry or in the projection store, only by
\* a transaction with a transfer whose memo is that invoice's own identifier;
\* invoiceByMemoHex finds, whatever the case of the memo's hex digits, the
\* one invoice whose identifier the memo spells and nothing when there is none.
C4_NoCrossInvoiceLeakage ==
    /\ \A n \in DOMAIN regInvoices :
        regInvoices[n].status = Paid =>
            regInvoices[n].invoiceId \in memosOf(regInvoices[n].paidTxHash)
    /\ \A i \in DOMAIN invoices :
        invoices[i].status = "Paid" =>
            invoices[i].id \in memosOf(invoices[i].paidTxHash)
    /\ \A n \in 1..GenerateCount + 1, suffix \in Suffixes, uc \in BOOLEAN :
        LET id == makeInvoiceId(n, suffix)
            idx == invoiceByMemoHex(invoices, Hex(id, uc))
        IN  IF \E i \in DOMAIN invoices : invoices[i].id = id
            THEN idx # 0 /\ invoices[idx].id = id
            ELSE idx = 0

\* a refresh-status pass went over two Open invoices with the transfer of the
\* first one only in its window: the first is Paid, the second still Open
C4_Witness ==
    /\ \E r \in 1..Len(req) :
        /\ req[r].kind = "refresh"
        /\ req[r].res = "marked"
        /\ req[r].marked = 1
        /\ req[r].nextNumber = 3
    /\ Len(regInvoices) = 2
    /\ regInvoices[1].status = Paid
    /\ regInvoices[2].status = Open
    /\ regInvoices[1].payee = regInvoices[2].payee

\* the receivers of the transfers of ledger transaction h
receiversOf(h) ==
    IF h \in 1..Len(txs) THEN {txs[h].logs[i].to : i \in 1..Len(txs[h].logs)}
    ELSE {}

\* C5: an invoice is Paid, in the registry or in the projection store, only by
\* a transaction with a transfer to the merchant address.
C5_RecipientFilter ==
    /\ \A n \in DOMAIN regInvoices :
        regInvoices[n].status = Paid =>
            merchantAddress.v \in receiversOf(regInvoices[n].paidTxHash)
    /\ \A i \in DOMAIN invoices :
        invoices[i].status = "Paid" =>
            merchantAddress.v \in receiversOf(invoices[i].paidTxHash)

\* the registry transactions request r sent
writesBy(r) == {h \in 1..Len(regTxs) : regTxs[h].by = r}

\* the refresh-status passes that were answered
Passes == {r \in 1..Len(req) : req[r].kind = "refresh" /\ req[r].pc = "done"}

\* the invoices of pass r's loop that have a settling transfer in r's window
settledIn(r) ==
    {n \in 1..(req[r].nextNumber - 1) : txHashFor(req[r], regInvoices[n]) # 0}

\* no request but r wrote to the registry before r was answered
soleWriter(r) ==
    \A h \in 1..Len(regTxs) : regTxs[h].by = r \/ r \in req[regTxs[h].by].after

\* C6: a refresh-status pass that no other registry write interferes with and
\* that no upstream failure stops answers { marked }, where marked is the
\* number of its invoices with a settling transfer in the window, and each of
\* them is Paid by that transfer; a second pass that starts after the answer
\* with the same window and the same invoices sends no markPaid transaction
\* and answers { marked: 0 }.
C6_BackfillConvergence ==
    \A r \in Passes :
        (req[r].res # "500:upstream" /\ soleWriter(r)) =>
            /\ req[r].res = "marked"
            /\ req[r].marked = Cardinality(settledIn(r))
            /\ \A n \in settledIn(r) :
                /\ regInvoices[n].status = Paid
                /\ regInvoices[n].paidTxHash = txHashFor(req[r], regInvoices[n])
            /\ \A r2 \in 1..Len(req) :
                (/\ req[r2].kind = "refresh"
                 /\ r \in req[r2].after
                 /\ req[r2].latestBlock = req[r].latestBlock
                 /\ req[r2].fromBlock = req[r].fromBlock
                 /\ req[r2].nextNumber \in {0, req[r].nextNumber}
                 /\ \A h \in 1..Len(regTxs) : regTxs[h].by \in {r, r2}) =>
                    /\ writesBy(r2) = {}
                    /\ req[r2].marked = 0
                    /\ req[r2].pc = "done" /\ req[r2].res # "500:upstream"
                           => req[r2].res = "marked"

\* two invoices, both settled in the window: the first pass answered
\* { marked: 2 }, the pass after it { marked: 0 }
C6_Witness ==
    \E r \in Passes, r2 \in Passes :
        /\ r \in req[r2].after
        /\ soleWriter(r)
        /\ req[r].res = "marked" /\ req[r].marked = 2
        /\ req[r2].res = "marked" /\ req[r2].marked = 0
        /\ req[r2].latestBlock = req[r].latestBlock
        /\ req[r2].fromBlock = req[r].fromBlock
        /\ req[r2].nextNumber = req[r].nextNumber

\* transaction h exists, succeeded and has a transfer of the token from the
\* invoice's payee to the merchant with the invoice's identifier as memo
genuine(h, invoice) ==
    /\ h \in 1..Len(txs)
    /\ txs[h].status = "success"
    /\ \E i \in 1..Len(txs[h].logs) :
        txs[h].logs[i] = Event(ALPHA_USD.v, invoice.payee, merchantAddress.v,
                               invoice.invoiceId)

\* the mark-paid requests that were answered
Answered == {r \in 1..Len(req) : req[r].kind = "markPaid" /\ req[r].pc = "done"}

\* C7: a mark-paid request that is served alone, for an invoice it read Open
\* and a transaction with the invoice's settling transfer, is answered with the
\* hash and the registry then has the invoice Paid; the same request sent after
\* that answer is answered 'already-paid' and sends no markPaid transaction.
C7_MarkPaidThenAlreadyPaid ==
    \A r \in Answered :
        (/\ req[r].invoice.number # 0
         /\ req[r].res \notin {"already-paid", "500:upstream", "500:receipt-not-found"}
         /\ genuine(req[r].txHash, req[r].invoice)
         /\ \A o \in 1..Len(req) : o # r => r \in req[o].after) =>
            /\ req[r].res = "hash"
            /\ regInvoices[req[r].number].status = Paid
            /\ \A r2 \in Answered :
                (/\ r \in req[r2].after
                 /\ req[r2].number = req[r].number
                 /\ req[r2].txHash = req[r].txHash
                 /\ req[r2].res # "500:upstream") =>
                    req[r2].res = "already-paid" /\ writesBy(r2) = {}

\* C8: no request is answered with the error of a markPaid call that the
\* registry refuses because another request has paid the invoice meanwhile.
C8_AlreadyPaidNeverError ==
    \A r \in 1..Len(req) : req[r].res # "500:reverted"

\* C9: a mark-paid request sends a markPaid transaction only for a successful
\* transaction with a transfer of the token from the invoice's payee to the
\* merchant whose memo is the invoiceId, and answers an error otherwise.
C9_UnverifiableRejected ==
    \A r \in 1..Len(req) :
        req[r].kind = "markPaid" =>
            /\ \A h \in writesBy(r) : genuine(regTxs[h].txHash, req[r].invoice)
            /\ (/\ req[r].pc = "done"
                /\ req[r].res # "already-paid"
                /\ ~genuine(req[r].txHash, req[r].invoice)) =>
                   req[r].res \in {"400:not-successful", "400:no-match",
                                   "500:receipt-not-found", "500:upstream",
                                   "500:reverted"}

\* C10: once a refresh-status pass has an error as its answer, the pass does
\* nothing more: its answer and its locals stay, it sends no further markPaid
\* transaction; and every invoice one of its markPaid transactions has paid
\* is Paid and stays Paid.
C10_PartialFailure ==
    [][\A r \in 1..Len(req) :
          req[r].kind = "refresh" =>
            /\ req[r].res \in {"500:upstream", "500:reverted"} =>
                  req'[r] = req[r] /\ {h \in 1..Len(regTxs') : regTxs'[h].by = r} = writesBy(r)
            /\ \A h \in writesBy(r) :
                  regTxs[h].status = "success" =>
                    /\ regInvoices[regTxs[h].number].status = Paid
                    /\ regInvoices'[regTxs[h].number].status = Paid]_vars

\* a pass failed after it had marked the first invoice: the first invoice is
\* Paid, the second, settled in the window too, was not looked at and is Open
C10_Witness ==
    \E r \in Passes :
        /\ req[r].res = "500:upstream"
        /\ req[r].marked = 1
        /\ req[r].nextNumber = 3
        /\ settledIn(r) = {1, 2}
        /\ writesBy(r) # {}
        /\ \A h \in writesBy(r) : regTxs[h].number = 1 /\ regTxs[h].status = "success"
        /\ regInvoices[1].status = Paid
        /\ regInvoices[2].status = Open

\* the scan as it would end with one getLogs round over minBlock..latestBlock
wholeRange ==
    scanRespond(scanRange([scan EXCEPT !.memoKeySet = {}, !.memoLogByTx = <<>>,
                                       !.transferLogByTx = <<>>,
                                       !.mintLogByTx = <<>>, !.queries = <<>>],
                          scan.minBlock, scan.latestBlock))

\* the values of a map kept as a sequence
entriesOf(map) == {map[i] : i \in 1..Len(map)}

\* C11: when the transactions scan has answered, its queries, newest first,
\* each at most MAX_LOG_RANGE wide, tile minBlock..latestBlock without a gap
\* or an overlap, and the keys seen, the per-kind maps and the transfers
\* answered are those of one query over the whole range, with no transaction
\* twice in a map.
C11_ChunksEqualWholeRange ==
    scan.pc = "done" =>
        /\ Len(scan.queries) >= 1
        /\ scan.queries[1][2] = scan.latestBlock
        /\ scan.queries[Len(scan.queries)][1] = scan.minBlock
        /\ \A k \in 1..Len(scan.queries) :
            /\ scan.queries[k][1] <= scan.queries[k][2]
            /\ scan.queries[k][2] - scan.queries[k][1] <= MAX_LOG_RANGE
            /\ k > 1 => scan.queries[k][2] = scan.queries[k - 1][1] - 1
        /\ scan.memoKeySet = wholeRange.memoKeySet
        /\ entriesOf(scan.memoLogByTx) = entriesOf(wholeRange.memoLogByTx)
        /\ entriesOf(scan.transferLogByTx) = entriesOf(wholeRange.transferLogByTx)
        /\ entriesOf(scan.mintLogByTx) = entriesOf(wholeRange.mintLogByTx)
        /\ scan.transfers = wholeRange.transfers
        /\ \A i, j \in 1..Len(scan.transfers) :
            scan.transfers[i].txHash = scan.transfers[j].txHash => i = j

\* three chunks or more, a log in the first block of one chunk and a log in
\* the last block of the next: both are in the answer
C11_Witness ==
    /\ scan.pc = "done"
    /\ Len(scan.queries) >= 3
    /\ \E k \in 1..(Len(scan.queries) - 1) :
        /\ <<scan.queries[k][1], 0>> \in scan.memoKeySet
        /\ <<scan.queries[k + 1][2], 0>> \in scan.memoKeySet
    /\ Len(scan.transfers) = 2

\* C12: at most one registry transaction of the merchant account is sent and
\* not yet mined at any time.
C12_SerializedMutations ==
    Cardinality(Pending) <= 1


\* the ids of cs whose stream takes a write
openClients(cs) == {cs[i] : i \in 1..Len(cs)} \cap
                   {id \in DOMAIN streams : streams[id].state = "open"}

\* the latest message on the stream of client id
lastGot(strs, id) == strs[id].got[Len(strs[id].got)]

\* C13: removeClient called with the id of a connection it removed before, or
\* with an id that was never issued, returns and leaves the array of
\* registered clients as it was, so that a broadcast made after the call
\* writes to the same streams as one made before it.
C13_UnsubscribeSafety ==
    \A id \in Removed :
        /\ removeClient(clients, id) = clients
        /\ \A raises \in BOOLEAN :
            writeAll(streams, removeClient(clients, id), "probe", raises)
                = writeAll(streams, clients, "probe", raises)

\* a connection was closed, which removed its client, while another client
\* stayed registered and has received a broadcast
C13_Witness ==
    /\ \E id \in DOMAIN streams : streams[id].state = "closed"
    /\ \E id \in openClients(clients) :
        /\ sent # <<>>
        /\ Len(streams[id].got) > 1
        /\ lastGot(streams, id) = sent[Len(sent)]

\* C14: a handler step that broadcasts ends with the latest message on the
\* stream of every registered client whose connection is open, whatever the
\* writes to broken connections did, and leaves no client with a broken
\* connection registered.
C14_BestEffortPublish ==
    [][Len(sent') > Len(sent)
        => /\ \A id \in openClients(clients) :
                lastGot(streams', id) = sent'[Len(sent')]
           /\ \A i \in 1..Len(clients') : streams'[clients'[i]].state # "broken"]_vars

\* the clients registered before client id, whose streams broadcast writes first
before(cs, id) == {cs[i] : i \in 1..(findIndex(cs, id) - 1)}

\* the messages a step adds to `sent`
published == SubSeq(sent', Len(sent) + 1, Len(sent'))

\* a step of GET /api/events leaves the new client registered, with the whole
\* store as the only message on its stream
pushOnConnect ==
    Len(streams') > Len(streams)
        => /\ findIndex(clients', Len(streams')) >= 0
           /\ streams'[Len(streams')].got
                = <<[event |-> "invoices", data |-> invoices, gen |-> generation]>>

C17_RegistryNumbering ==
    LET count == Cardinality(assigned(regInvoices))
    IN  /\ assigned(regInvoices) = 1..count
        /\ \A n \in assigned(regInvoices) : getInvoice(n).number = n
        /\ nextInvoiceNumber = count + 1
        /\ \A n \in (0..(MaxInvoices + 1)) \ (1..count) : getInvoice(n).number = 0
        /\ (call.pc = "createInvoice" /\ ~call.reverted)
                => call.returned = call.created + 1

\* the last of MaxInvoices invoices was created
C17_Witness ==
    /\ call.pc = "createInvoice"
    /\ ~call.reverted
    /\ call.returned = MaxInvoices
    /\ nextInvoiceNumber = MaxInvoices + 1

\* whether an account may mark invoice `number` of `reg` paid according to C18
mayMarkPaid(reg, sender, number) ==
    /\ sender = owner
    /\ number \in assigned(reg)
    /\ reg[number].status = Open

\* C18: a markPaid call by an account that is not the owner, for a number
\* that was not assigned, or for an invoice that is Paid reverts and leaves
\* every record as it was; any other call succeeds and changes the status
\* and the hash of that invoice alone.
C18_MarkPaidRejected ==
    call.pc = "markPaid" =>
        IF mayMarkPaid(call.before, call.sender, call.number)
        THEN /\ ~call.reverted
             /\ regInvoices = [call.before EXCEPT ![call.number].status = Paid,
                                                  ![call.number].paidTxHash = call.txHash]
        ELSE /\ call.reverted
             /\ regInvoices = call.before

\* an account that is not the owner called markPaid for an Open invoice
C18_Witness ==
    /\ call.pc = "markPaid"
    /\ call.sender # owner
    /\ call.number \in assigned(call.before)
    /\ call.before[call.number].status = Open
    /\ call.reverted

\* the watcher's decision on the log r for the Unpaid invoice n of a store
\* generated with the identifiers payers name
realTimeSettles(r, n) ==
    LET store == generateInvoices([k \in 1..GenerateCount |-> "a"])
        out == onLog([store |-> store, sent |-> <<>>, streams |-> streams,
                      threw |-> FALSE, raises |-> FALSE],
                     DecodedLog(r[1], r[2], FALSE))
    IN  out.store[n].status = "Paid"

\* the decision of a refresh-status pass over the whole ledger on the log r
\* for the Open registry invoice with that identifier issued to `payee`
batchSettles(r, n, payee) ==
    r \in indexedUnder(0, getBlockNumber,
                       memoKey(getAddress(payee), Hex(makeInvoiceId(n, "a"), FALSE)))

\* C19: for every log of the token on the ledger and every invoice, the
\* watcher settles the invoice with the log exactly if a refresh-status pass
\* finds the log under the invoice's key.
C19_SamePredicate ==
    \A r \in AlphaLogRefs, n \in 1..GenerateCount, payee \in Payees :
        realTimeSettles(r, n) <=> batchSettles(r, n, payee)

\* C20: no transaction is recorded as the paying transaction of two
\* invoices, in the registry or in the projection store.
C20_OneInvoicePerTransfer ==
    /\ \A m, n \in DOMAIN regInvoices :
        (regInvoices[m].status = Paid /\ regInvoices[n].status = Paid
            /\ regInvoices[m].paidTxHash = regInvoices[n].paidTxHash) => m = n
    /\ \A i, j \in DOMAIN invoices :
        (invoices[i].status = "Paid" /\ invoices[j].status = "Paid"
            /\ invoices[i].paidTxHash = invoices[j].paidTxHash) => i = j

\* the invoices whose status pass r changed from Open to Paid: the numbers of
\* its markPaid transactions that were mined without reverting
markedBy(r) == {regTxs[h].number : h \in {w \in writesBy(r) : regTxs[w].status = "success"}}

\* C21: a refresh-status pass that answers { marked } reports the number of
\* invoices its own markPaid transactions turned from Open to Paid.
C21_MarkedCount ==
    \A r \in Passes :
        req[r].res = "marked" => req[r].marked = Cardinality(markedBy(r))

\* the logs in the window of pass q that are indexed under the key of
\* registry invoice n
hitsFor(q, n) ==
    indexedUnder(q.fromBlock, q.latestBlock,
                 memoKey(getAddress(regInvoices[n].payee),
                         Hex(regInvoices[n].invoiceId, FALSE)))

\* C22: the transaction a refresh-status pass hands to markPaid for an invoice
\* is that of the first log, in block order, among the logs of its window
\* with the invoice's (sender, memo) key.
C22_FirstEventWins ==
    \A h \in 1..Len(regTxs) :
        req[regTxs[h].by].kind = "refresh" =>
            \A o \in hitsFor(req[regTxs[h].by], regTxs[h].number) :
                regTxs[h].txHash <= o[1]

\* C23: every getLogs query of a refresh-status pass spans at most
\* MAX_LOG_RANGE blocks above its first block.
C23_RefreshChunked ==
    call.pc = "refresh" =>
        \A k \in 1..Len(call.queries) :
            call.queries[k].toBlock - call.queries[k].fromBlock <= MAX_LOG_RANGE

\* the lookback C30 describes: the request's when it is a positive decimal
\* integer, the default otherwise, and never more than the hard maximum
effectiveLookback(lookbackParam, default) ==
    LET asked == IF lookbackParam > 0 THEN lookbackParam ELSE default
    IN  IF asked < LOOKBACK_BLOCKS THEN asked ELSE LOOKBACK_BLOCKS

\* C30: in refresh-status and in transactions the lookback is the request's
\* when that is a positive decimal integer and the default otherwise, capped
\* at LOOKBACK_BLOCKS, and the lower bound of the scan is
\* max(0, head - lookback), between 0 and the head.
C30_LookbackArithmetic ==
    call.pc \in {"refresh", "transactions"} =>
        LET default == IF call.pc = "refresh" THEN REFRESH_LOOKBACK_BLOCKS
                       ELSE TRANSACTION_LOOKBACK_BLOCKS
            lookback == effectiveLookback(call.lookbackParam, default)
        IN  /\ call.lookback = lookback
            /\ call.fromBlock = IF call.head - lookback > 0
                                THEN call.head - lookback ELSE 0
            /\ 0 <= call.fromBlock
            /\ call.fromBlock <= call.head

\* a refresh-status request asked for more than the hard maximum at a head
\* above it, and the window starts LOOKBACK_BLOCKS below the head
C30_Witness ==
    /\ call.pc = "refresh"
    /\ call.lookbackParam > LOOKBACK_BLOCKS
    /\ call.head > LOOKBACK_BLOCKS + 1
    /\ call.fromBlock = call.head - LOOKBACK_BLOCKS

\* the projection store holds an entry for registry invoice n
projected(n) ==
    \E i \in DOMAIN invoices : invoices[i].id = regInvoices[n].invoiceId

\* the projection entry of registry invoice n shows Paid
projectedPaid(n) ==
    \E i \in DOMAIN invoices :
        invoices[i].id = regInvoices[n].invoiceId /\ invoices[i].status = "Paid"

\* C24: every invoice created in the registry eventually has an entry in the
\* projection store, and every invoice Paid in the registry eventually has
\* an entry that shows Paid.
C24_ProjectionFollowsRegistry ==
    \A n \in 1..MaxInvoices :
        /\ (n \in assigned(regInvoices)) ~> (n \in assigned(regInvoices) /\ projected(n))
        /\ (n \in assigned(regInvoices) /\ regInvoices[n].status = Paid)
                ~> (n \in assigned(regInvoices) /\ projectedPaid(n))

\* the invoices of the store that a step settles
settledNow == {i \in DOMAIN invoices : invoices[i].status = "Unpaid"
                                        /\ invoices'[i].status = "Paid"}

\* the messages a watcher step publishes come in pairs, one pair for each
\* invoice it settles: 'invoicePaid' with the invoice as the store holds it,
\* Paid, then 'invoices' with a store in which that invoice is the same
pairsPublished ==
    /\ Len(published) = 2 * Cardinality(settledNow)
    /\ \A k \in 1..Len(published) : k % 2 = 1 =>
        /\ published[k].event = "invoicePaid"
        /\ published[k].data.status = "Paid"
        /\ \E i \in settledNow :
            /\ published[k].data = invoices'[i]
            /\ published[k + 1].event = "invoices"
            /\ published[k + 1].data[i] = published[k].data

discarded(store, e) ==
    \/ e.to # "merchant"
    \/ \A i \in DOMAIN store : store[i].id # e.memo
    \/ \E i \in DOMAIN store : store[i].id = e.memo /\ store[i].status = "Paid"

\* C26: handing the watcher a log it discards, in either spelling of the
\* memo, leaves the projection store, the log of notifications and every
\* client's stream as they are.
C26_DiscardedIsNoOp ==
    \A r \in AlphaLogRefs, uc \in BOOLEAN, raises \in BOOLEAN :
        LET st == [store |-> invoices, sent |-> sent, streams |-> streams,
                   threw |-> FALSE, raises |-> raises]
        IN  discarded(invoices, txs[r[1]].logs[r[2]])
                => onLog(st, DecodedLog(r[1], r[2], uc)) = st

\* the store holds a Paid invoice whose transfer was delivered again and an
\* Unpaid one, next to a transfer that was not sent to the merchant; one
\* 'invoices' notification was sent for the store and one for the settlement
C26_Witness ==
    /\ \E i \in DOMAIN invoices :
        /\ invoices[i].status = "Paid"
        /\ delivered[invoices[i].paidTxHash] >= 2
    /\ \E i \in DOMAIN invoices : invoices[i].status = "Unpaid"
    /\ \E r \in AlphaLogRefs :
        /\ txs[r[1]].logs[r[2]].to # "merchant"
        /\ delivered[r[1]] >= 1
    /\ Cardinality({k \in 1..Len(sent) : sent[k].gen = generation}) = 3

\* C27: of the markPaid transactions one refresh-status pass has sent, each
\* but the latest is mined and each is for a higher invoice number than the
\* ones sent before it.
C27_SequentialMarkPaid ==
    \A r \in 1..Len(req) :
        req[r].kind = "refresh" =>
            \A h1, h2 \in writesBy(r) :
                h1 < h2 => /\ regTxs[h1].status # "pending"
                           /\ regTxs[h1].number < regTxs[h2].number

\* a pass has sent its second markPaid transaction, which is not mined yet
C27_Witness ==
    \E r \in 1..Len(req) :
        /\ req[r].kind = "refresh"
        /\ Cardinality(writesBy(r)) = 2
        /\ \E h \in writesBy(r) : regTxs[h].status = "pending"

\* an invoice as a reader may see it: no field of a settlement written, or all
whole(inv) ==
    \/ /\ inv.status = "Unpaid"
       /\ inv.paidTxHash = 0
       /\ inv.paidFrom = undefined
       /\ inv.paidAmount = undefined
    \/ /\ inv.status = "Paid"
       /\ inv.paidTxHash # 0
       /\ inv.paidFrom # undefined
       /\ inv.paidAmount # undefined

\* every invoice a message carries is whole
wholeMessage(msg) ==
    IF msg.event = "invoicePaid" THEN whole(msg.data)
    ELSE \A i \in DOMAIN msg.data : whole(msg.data[i])

\* C28: the store as GET /api/invoices reads it in any state, the snapshot
\* and every later message on a client's stream, and every payload broadcast
\* show each invoice with none or with all of the fields of a settlement.
C28_FieldAtomicity ==
    /\ \A i \in DOMAIN invoices : whole(invoices[i])
    /\ \A k \in DOMAIN sent : wholeMessage(sent[k])
    /\ \A id \in DOMAIN streams :
        \A k \in DOMAIN streams[id].got : wholeMessage(streams[id].got[k])

\* a client connected between two settlements: its snapshot shows one invoice
\* Paid and one Unpaid, and the store holds both Paid now
C28_Witness ==
    /\ \A i \in DOMAIN invoices : invoices[i].status = "Paid"
    /\ \E id \in DOMAIN streams :
        /\ streams[id].got # <<>>
        /\ \E i, j \in DOMAIN streams[id].got[1].data :
            /\ streams[id].got[1].data[i].status = "Paid"
            /\ streams[id].got[1].data[j].status = "Unpaid"
            /\ streams[id].got[1].gen = generation

\* one step of the chunk loop: endBlock is lower at the next iteration
chunkLowersEnd ==
    (scan.pc = "getLogs" /\ scan'.pc = "getLogs" /\ scan' # scan) =>
        scan'.endBlock < scan.endBlock

\* one step of pass r: the loop starts at 1, reads an invoice once and goes
\* on with the number after it, and answers { marked } after its last number
visitsInOrder(r) ==
    LET q == req[r]
        p == req'[r]
    IN  (q.kind = "refresh" /\ p # q) =>
            /\ q.pc = "nextInvoiceNumber" /\ p.pc = "getInvoice" => p.number = 1
            /\ q.pc = "getInvoice" /\ p.pc # "done" =>
                \/ p.pc = "getInvoice" /\ p.number = q.number + 1
                \/ p.pc = "writeContract" /\ p.number = q.number
            /\ q.pc = "writeContract" /\ p.pc # "done" =>
                p.pc = "waitForTransactionReceipt" /\ p.number = q.number
            /\ q.pc = "waitForTransactionReceipt" /\ p.pc # "done" =>
                p.pc = "getInvoice" /\ p.number = q.number + 1
            /\ p.res = "marked" =>
                \/ q.pc = "nextInvoiceNumber" /\ nextInvoiceNumber = 1
                \/ /\ q.pc \in {"getInvoice", "waitForTransactionReceipt"}
                   /\ q.number = q.nextNumber - 1

\* a request that was answered, with a failure or not, makes no further call
noRetry ==
    /\ \A r \in 1..Len(req) :
        /\ req[r].pc = "done" => req'[r] = req[r] /\ writesBy(r)' = writesBy(r)
        /\ req'[r].res \in {"500:upstream", "500:reverted"} => req'[r].pc = "done"
    /\ scan.pc \in {"done", "failed"} => scan' = scan

\* C29: when every awaited call returns or fails, every transactions scan and
\* every refresh-status pass ends with a response, at every chain head and
\* lookback; each iteration of the chunk loop lowers endBlock, the invoice loop
\* reads the numbers 1..nextInvoiceNumber-1 in order, each once, and a request
\* answered after a failed call makes no further call.
C29_BoundedPasses ==
    /\ (scan.pc = "start") ~> (scan.pc \in {"done", "failed"})
    /\ \A r \in 1..MaxReqs :
        (Len(req) >= r) ~> (Len(req) >= r /\ req[r].pc = "done")
    /\ [][/\ chunkLowersEnd
          /\ \A r \in 1..Len(req) : visitsInOrder(r)
          /\ noRetry]_vars

\* a scan of four chunks was answered, one pass marked two invoices and
\* another was answered 500 after a failed call
C29_Witness ==
    /\ scan.pc = "done"
    /\ Len(scan.queries) = 4
    /\ \E r, f \in 1..Len(req) :
        /\ req[r].res = "marked"
        /\ req[r].marked = 2
        /\ req[f].res = "500:upstream"

\* C31: the number a create request answers with, which is the number in the
\* identifier it made, is the number the registry assigned to the invoice the
\* request created, also when create requests overlap or another account
\* creates an invoice between the read and the write.
C31_ReturnedNumberIsAssigned ==
    \A r \in 1..Len(req) :
        (req[r].kind = "create" /\ req[r].res = "created") =>
            /\ req[r].number = req[r].invoice.number
            /\ req[r].invoice.invoiceId = makeInvoiceId(req[r].invoice.number, "a")

repriced(log, value) == [log EXCEPT !.args.value = value]

\* a store that differs from `store` in the amounts recorded only
repricedStore(store, value) ==
    [i \in DOMAIN store |->
        IF store[i].paidAmount = undefined THEN store[i]
        ELSE [store[i] EXCEPT !.paidAmount = String(value)]]

\* the status and the paying transaction of every invoice of a store
settlements(store) ==
    [i \in DOMAIN store |-> <<store[i].status, store[i].paidTxHash>>]

\* the watcher's state before a batch
watcherState(store) ==
    [store |-> store, sent |-> sent, streams |-> streams, threw |-> FALSE,
     raises |-> FALSE]

\* the real-time matcher on one log gives the same statuses and paying
\* transactions from stores and logs that differ in amounts only
sameRealTime ==
    \A r \in AlphaLogRefs, uc \in BOOLEAN, v, w \in Amounts :
        LET log == DecodedLog(r[1], r[2], uc)
        IN  settlements(onLog(watcherState(invoices), log).store)
              = settlements(onLog(watcherState(repricedStore(invoices, w)),
                                  repriced(log, v)).store)

\* the predicate of mark-paid and the index of refresh-status take a log and
\* the log with another amount alike, for every registry record
sameRegistryMatch ==
    \A r \in LogRefs, v \in Amounts, n \in 0..MaxInvoices :
        LET log == DecodedLog(r[1], r[2], FALSE)
            key == memoKey(getAddress(getInvoice(n).payee),
                           Hex(getInvoice(n).invoiceId, FALSE))
        IN  /\ matchesMarkPaid(log, getInvoice(n))
              = matchesMarkPaid(repriced(log, v), getInvoice(n))
            /\ indexes(log, key) = indexes(repriced(log, v), key)
            /\ repriced(log, v).transactionHash = log.transactionHash

\* C33: settlement does not depend on the amount a transfer carries: in every
\* reachable state the real-time matcher, the mark-paid predicate and the
\* refresh-status index give the same statuses and paying transaction hashes
\* for a log and for the log with another amount; a transfer with the right
\* memo settles the invoice whatever its amount.
C33_AmountIndependent ==
    /\ version = "v1" => sameRealTime
    /\ version = "v3" => sameRegistryMatch

\* the watcher has settled an invoice with a transfer that carries another
\* amount than the one invoices are issued for
C33_Witness ==
    \E i \in DOMAIN invoices :
        /\ invoices[i].status = "Paid"
        /\ invoices[i].paidAmount = String(2)
        /\ txs[invoices[i].paidTxHash].logs[1].value = 2

\* C34: for an identifier of at most MemoSize bytes the encoder returns
\* MemoSize bytes, the identifier's bytes followed by zero bytes, the same for
\* the same identifier every time; for a longer identifier it fails.
C34_RightPadded ==
    /\ call.pc \in {"encoded", "decoded"} =>
        /\ Len(stringToHex(call.s)) <= MemoSize
        /\ Len(call.memo) = MemoSize
        /\ call.memo = stringToHex(call.s)
                         \o [k \in 1..(MemoSize - Len(stringToHex(call.s))) |-> 0]
        /\ call.memo = toMemoHexBytes(call.s)
    /\ call.pc = "threw" => Len(stringToHex(call.s)) > MemoSize

\* one registry step: a record whose paidTxHash changes goes from Open to Paid
hashWrittenWithPaid ==
    \A n \in 0..(MaxInvoices + 1) :
        invoiceAt(regInvoices', n).paidTxHash # invoiceAt(regInvoices, n).paidTxHash =>
            /\ invoiceAt(regInvoices, n).status = Open
            /\ invoiceAt(regInvoices', n).status = Paid

\* C35: in every reachable registry state an invoice whose status is Open has
\* a zero paidTxHash, and paidTxHash is written only by the step that sets the
\* status to Paid.
C35_HashOnlyWhenPaid ==
    /\ [](\A n \in 0..(MaxInvoices + 1) :
            invoiceAt(regInvoices, n).status = Open =>
                invoiceAt(regInvoices, n).paidTxHash = 0)
    /\ [][hashWrittenWithPaid]_vars

\* markPaid has just set one invoice Paid with a hash while another is Open
C35_Witness ==
    /\ call.pc = "markPaid"
    /\ \E n, m \in assigned(regInvoices) :
        /\ regInvoices[n].status = Paid /\ regInvoices[n].paidTxHash # 0
        /\ regInvoices[m].status = Open /\ regInvoices[m].paidTxHash = 0

\* the entry a per-kind map keeps for transaction txHash
entryOfTx(map, txHash) ==
    map[CHOOSE j \in 1..Len(map) : map[j].txHash = txHash]

\* the answer holds one entry per transaction at most
onePerTransaction ==
    \A i, j \in 1..Len(scan.transfers) :
        scan.transfers[i].txHash = scan.transfers[j].txHash => i = j

\* a mint is listed only for a transaction with no transfer of either kind
mintOnlyAlone ==
    \A i \in 1..Len(scan.transfers), j \in 1..Len(scan.mintLogByTx) :
        scan.transfers[i] = withoutBlock(scan.mintLogByTx[j]) =>
            /\ ~hasTx(scan.memoLogByTx, scan.transfers[i].txHash)
            /\ ~hasTx(scan.transferLogByTx, scan.transfers[i].txHash)

\* the entry of a transaction seen with a memo transfer and a plain transfer
\* is the memo transfer: its sender, recipient, amount and memo
memoPreferred ==
    \A i \in 1..Len(scan.transfers) :
        LET e == scan.transfers[i]
        IN  (hasTx(scan.memoLogByTx, e.txHash) /\ hasTx(scan.transferLogByTx, e.txHash)) =>
                LET m == entryOfTx(scan.memoLogByTx, e.txHash)
                IN  /\ e.memo = m.memo
                    /\ e.from = m.from
                    /\ e.to = m.to
                    /\ e.value = m.value

\* C36: the answer of the transactions query holds at most one entry per
\* transaction hash; for a transaction observed with both a memo-carrying and
\* a plain transfer the entry is the memo-carrying one; a mint is listed only
\* for a transaction with neither.
C36_MemoVariantPreferred ==
    scan.pc = "done" => onePerTransaction /\ memoPreferred /\ mintOnlyAlone

===========================================================================
